---- MODULE Spec2Model ----
(***************************************************************************)
(* A model of the coverage-path planner of src/Polygon.cpp and             *)
(* src/main.cpp: convex decomposition of the search polygon, the merge     *)
(* pass, the width of a polygon, the sweep traversal and the               *)
(* boundary-safe router.                                                   *)
(*                                                                         *)
(* The vertices of a polygon are integers (grid points, pitch metres to    *)
(* the grid unit); a float_type angle is kept as the direction vector      *)
(* whose atan2 it is, and compared exactly; a float_type distance is kept  *)
(* as an exact squared rational when two distances are compared, and in    *)
(* fixed point (Scale units per metre) when distances are added.  The      *)
(* points traverse and pathTo compute are kept in metres as exact          *)
(* rationals.                                                              *)
(***************************************************************************)
EXTENDS Integers, Sequences, FiniteSets, TLC

\* ------------------------------------------------------------------ bounds
\* The search polygon is read from the grid points (0..GridX) x (0..GridY).
GridX == 2

GridY == 2

\* The largest number of vertices read for the search polygon.
MaxVerts == 6

\* Fixed-point units per metre for sums of float_type distances.
Scale == 1000

\* main makes the first point read the origin; a second specification reads
\* the other points from the wider grid (0..WideX) x (0..WideY).
WideX == 3

WideY == 2

\* The properties sample the plane at SampleScale points per unit.
SampleScale == 3

\* traverse is run on the convex polygons of at most MaxTravVerts vertices
\* read from the grid points (0..TravX) x (0..TravY), whose width edge has a
\* direction with rational cosine and sine.
TravX == 4

TravY == 3

MaxTravVerts == 4

\* Metres per grid unit when traverse is run.
Pitch == 70

\* pathTo is run inside the rectilinear boundaries of at most MaxBoundVerts
\* vertices read from the grid points (0..BoundX) x (0..BoundY), lowest
\* leftmost vertex first, between the interior points of the grid refined
\* QueryScale times that lie on no line of the grid.
BoundX == 3

BoundY == 2

MaxBoundVerts == 8

QueryScale == 4

\* Metres per grid unit when pathTo is run.
BoundPitch == 100

\* pathToHelp is followed while the path has at most MaxPath points, with
\* coordinates of denominator at most MaxDen.
MaxPath == 6

MaxDen == 100

\* In the scenario of fractional coordinates the vertices of the search
\* polygon are the grid points divided by FineDen.
FineDen == 2

\* The mission file has up to MaxMission records.
MaxMission == 2

\* The conversions are followed on a sphere of EarthRadius metres, for at most
\* MaxInits reference points one after the other, square roots that are not
\* rational taken to 1/SqrtDen, points converted while the numbers of the
\* basis have denominators up to BasisDen. The points converted are the
\* reference point and the points one turn from it, a turn being the angle
\* whose half has the cotangent HalfCot.
EarthRadius == 10

MaxInits == 2

SqrtDen == 100

BasisDen == 500

HalfCot == 256

\* The search polygons of the radius 10 scenario have their vertices on the
\* grid 0..SquareSide x 0..SquareSide, SquarePitch metres to the unit.
SquareSide == 2
SquarePitch == 50

\* The tour of searchPath is computed for the polygons of at most
\* MaxTourVerts vertices of the wider grid, TourPitch or NarrowPitch metres
\* to the unit, with distances between centres kept to 1 / (2 * TourScale)
\* of a metre.
TourPitch == 120

NarrowPitch == 60

MaxTourVerts == 5

\* The memory read through an empty sweep list holds the point (0, 0) or
\* points JunkFar metres from it.
JunkFar == 1000

TourScale == 50

\* Metres to the unit of the grid of the L-shaped search polygon
EllPitch == 30

\* --------------------------------------------------------------- constants
\* #define INF 1000000
INF == 1000000

\* #define RADIUS 36.6, as the rational 183/5
ConfigRadius == <<183, 5>>

\* RADIUS of a build made for a vehicle of radius 10
TenRadius == <<10, 1>>


\* --------------------------------------------------------- Coord (60-90)
Abs(n) == IF n < 0 THEN -n ELSE n

Min2(a, b) == IF a < b THEN a ELSE b

Max2(a, b) == IF a < b THEN b ELSE a

Sub(a, b) == <<a[1] - b[1], a[2] - b[2]>>

Dot(a, b) == a[1] * b[1] + a[2] * b[2]

\* cross(c1, c2) = c1.x * c2.y - c2.x * c1.y
Cross(c1, c2) == c1[1] * c2[2] - c2[1] * c1[2]

GridPoints == {<<x, y>> : x \in 0..GridX, y \in 0..GridY}

WidePoints == {<<x, y>> : x \in 0..WideX, y \in 0..WideY}

TravPoints == {<<x, y>> : x \in 0..TravX, y \in 0..TravY}

BoundPoints == {<<x, y>> : x \in 0..BoundX, y \in 0..BoundY}

\* ------------------------------------------------- float_type as a rational
\* A float_type value computed by traverse or pathTo is the rational
\* <<n, d>>, d > 0, in lowest terms.
RECURSIVE GCD(_, _)
GCD(a, b) == IF b = 0 THEN a ELSE GCD(b, a % b)

Rat(n, d) == <<n \div GCD(Abs(n), d), d \div GCD(Abs(n), d)>>

RInt(k) == <<k, 1>>

RAddOver(a, b, l) == Rat(a[1] * (l \div a[2]) + b[1] * (l \div b[2]), l)

RAdd(a, b) == RAddOver(a, b, (a[2] \div GCD(a[2], b[2])) * b[2])

RNeg(a) == <<-a[1], a[2]>>

RSub(a, b) == RAdd(a, RNeg(b))

RMulBy(a, b, g1, g2) ==
    <<(a[1] \div g1) * (b[1] \div g2), (a[2] \div g2) * (b[2] \div g1)>>

RMul(a, b) == RMulBy(a, b, GCD(Abs(a[1]), b[2]), GCD(Abs(b[1]), a[2]))

RInv(a) == IF a[1] > 0 THEN <<a[2], a[1]>> ELSE <<-a[2], -a[1]>>

RDiv(a, b) == RMul(a, RInv(b))

RSign(a) == IF a[1] > 0 THEN 1 ELSE IF a[1] < 0 THEN -1 ELSE 0

RLess(a, b) == RSub(a, b)[1] < 0

RAbs(a) == <<Abs(a[1]), a[2]>>

\* The conversion of a float_type to int: the fraction is dropped.
RTrunc(a) ==
    IF a[1] >= 0 THEN <<a[1] \div a[2], 1>> ELSE <<-((-a[1]) \div a[2]), 1>>

\* Coord::operator+, operator-, operator*(float_type) and cross on rationals
PAdd(a, b) == <<RAdd(a[1], b[1]), RAdd(a[2], b[2])>>

PSub(a, b) == <<RSub(a[1], b[1]), RSub(a[2], b[2])>>

PScale(a, t) == <<RMul(t, a[1]), RMul(t, a[2])>>

RCross(c1, c2) == RSub(RMul(c1[1], c2[2]), RMul(c2[1], c1[2]))

\* ---------------------------------------------------- angles (Edge::theta)
\* Edge::theta() of an edge with direction d = v2 - v1 is atan2(d.y, d.x) in
\* (-pi, pi]; its three special cases (vertical: +-pi/2, horizontal: 0 or pi)
\* are the values atan2 gives.  The angle is kept as [k, d], meaning
\* atan2(d) + k*pi, so that theta + PI is representable.
Theta(v1, v2) == [k |-> 0, d |-> Sub(v2, v1)]

ZeroAngle == [k |-> 0, d |-> <<1, 0>>]

PiAngle == [k |-> 0, d |-> <<-1, 0>>]

AddPi(a) == [k |-> a.k + 1, d |-> a.d]

\* atan2(d) in (0, pi]
UpperHalf(d) == d[2] > 0 \/ (d[2] = 0 /\ d[1] < 0)

\* The half-turn ((s-1)*pi, s*pi] the angle lies in.
Slot(a) == a.k + (IF UpperHalf(a.d) THEN 1 ELSE 0)

\* The direction of the angle reduced into its half-turn.
Dir(a) == IF a.k % 2 = 0 THEN a.d ELSE <<-a.d[1], -a.d[2]>>

AngleLT(a, b) ==
    \/ Slot(a) < Slot(b)
    \/ Slot(a) = Slot(b) /\ Cross(Dir(a), Dir(b)) > 0

AngleEQ(a, b) == Slot(a) = Slot(b) /\ Cross(Dir(a), Dir(b)) = 0

AngleLE(a, b) == AngleLT(a, b) \/ AngleEQ(a, b)

\* --------------------------------------------------------------- Polygon
\* Vertex i (0-based, as in the code) of polygon p, indices taken mod size.
V(p, i) == p[(i % Len(p)) + 1]

\* Polygon::edge(i) = Edge(v[i], v[(i + 1) % size])
PolyEdge(p, i) == <<V(p, i), V(p, i + 1)>>

\* Edge::operator== : undirected equality
EdgeEq(e, f) ==
    \/ e[1] = f[1] /\ e[2] = f[2]
    \/ e[1] = f[2] /\ e[2] = f[1]

\* Twice the signed area (shoelace); positive for counter-clockwise order.
RECURSIVE Area2From(_, _)
Area2From(p, i) ==
    IF i >= Len(p) THEN 0
    ELSE Cross(V(p, i), V(p, i + 1)) + Area2From(p, i + 1)

Area2(p) == Area2From(p, 0)

\* clockwise(v): int sum of (x[i+1] - x[i]) * (y[i+1] + y[i]); sum > 0.
RECURSIVE ClockSum(_, _)
ClockSum(v, i) ==
    IF i >= Len(v) THEN 0
    ELSE (V(v, i + 1)[1] - V(v, i)[1]) * (V(v, i + 1)[2] + V(v, i)[2])
         + ClockSum(v, i + 1)

clockwise(v) == ClockSum(v, 0) > 0

\* The conversion of a double to int: the quotient a / b cut towards zero
Truncated(a, b) == IF a >= 0 THEN a \div b ELSE -((-a) \div b)

\* clockwise(v) for vertices v / den: sum is an int, so after every += it
\* holds the sum so far, with the product added, cut to an integer
RECURSIVE IntSum(_, _, _, _)
IntSum(v, den, i, sum) ==
    IF i >= Len(v) THEN sum
    ELSE IntSum(v, den, i + 1,
                Truncated(sum * den * den
                          + (V(v, i + 1)[1] - V(v, i)[1])
                            * (V(v, i + 1)[2] + V(v, i)[2]),
                          den * den))

\* clockwise(v) for vertices v / den
clockwiseOver(v, den) == IntSum(v, den, 0, 0) > 0

Reverse(s) == [i \in 1..Len(s) |-> s[Len(s) + 1 - i]]

\* isConcave(p, i): z-coordinate of BA x BC is positive.
isConcave(p, i) ==
    LET A == V(p, i - 1 + Len(p))
        B == V(p, i)
        C == V(p, i + 1)
    IN  Cross(Sub(A, B), Sub(C, B)) > 0

ConcaveVerts(p) == {i \in 0..(Len(p) - 1) : isConcave(p, i)}

\* ------------------------------------------------------------------ state
VARIABLES
    intAbs,      \* the build: TRUE when the unqualified abs() of Polygon.cpp
                 \* resolves to int abs(int) (no ::abs(double) in scope, as
                 \* with <cmath> of libstdc++), FALSE when to abs(double)
    field,       \* the points the search grid file may name
    pc,          \* where main is: "read", "decompose", "merged", "spin"
                 \* (decompose's chord search loops), "crash"
    searchArea,  \* main's searchArea.v
    pending,     \* the calls of decompose still to run, next call first
    subregions,  \* searchPath's list of subregions
    lastSplit,   \* the last split decompose performed: <<p, v1, v2, p1, p2>>
    merges,      \* the polygons mergeSubregions has stored (*it1 = merged)
    passes,      \* how many times mergeSubregions has returned
    firstPass,   \* the subregion list after the first mergeSubregions call
    pitch,       \* metres per grid unit of the points the input files name
    radius,      \* the value of RADIUS the program was built with
    sweepLine,   \* traverse's sweepLine, before its extension to INF
    sweepJ,      \* traverse's j
    waypoints,   \* traverse's list of waypoints (edges)
    boundary,    \* main's boundary.v
    path,        \* pathTo's list result: point1, the waypoints, point2
    calls,       \* the running calls of pathToHelp that are in their for
                 \* loop, outermost first: the position of each one's it
    unit,        \* the source file whose conversion functions are in use
    global,      \* namespace global: refCart, ourX, ourY, ourZ, convMatrix,
                 \* REF_LONG, REF_LAT
    local,       \* the last point converted: its longitude and latitude, the
                 \* Coord of GPStoCoord and what CoordtoGPS makes of that
    outFile,     \* the number of records written to outFile
    graph,       \* searchPath's graph g: the nodes v (polygon, sweep list and
                 \* start state), the adjacency matrix e and the weights w
    verts,       \* minTraversal's verts, the permutation being measured
    bestPath,    \* minTraversal's bestPath
    minDistance, \* minTraversal's minDistance, in weight units
    travOrder    \* searchPath's travOrder

\* The state of traverse and pathTo
routeVars ==
    <<pitch, radius, sweepLine, sweepJ, waypoints, boundary, path, calls>>

\* The state of decompose and mergeSubregions
decompVars == <<pending, subregions, lastSplit, merges, passes, firstPass>>

\* The state of the conversions between GPS and local coordinates
geoVars == <<unit, global, local>>

\* The state of searchPath after the subregions are known
tourVars == <<graph, verts, bestPath, minDistance, travOrder>>

vars == <<intAbs, field, pc, searchArea, pending, subregions, lastSplit,
          merges, passes, firstPass, routeVars, geoVars, outFile, tourVars>>

\* searchPath has not built its graph
NoGraph == [v |-> << >>, e |-> << >>, w |-> << >>]

TourIdle ==
    /\ graph = NoGraph
    /\ verts = << >>
    /\ bestPath = << >>
    /\ minDistance = -1
    /\ travOrder = << >>

\* RADIUS of Config.h, in the build at hand
RADIUS == radius

\* #define OFFSET RADIUS
OFFSET == RADIUS

\* #define CORRECTION RADIUS
CORRECTION == RADIUS

\* ------------------------------------------- distance(Coord, Edge) (252-259)
\* The distance, in metres, is DistNum / sqrt(DistLen2).  For a vertical edge the code
\* returns abs(e.v1.x - v.x).  Otherwise numer = abs(a*x + b*y + c) with
\* a = -m, b = 1, c = m*x1 - y1, m = dy/dx, which is |cross| / |dx|, and
\* denom = sqrt(m*m + 1) = sqrt(dx*dx + dy*dy) / |dx|.
IsVertical(e) == e[1][1] = e[2][1]

EdgeCross(v, e) ==
    Abs(Cross(Sub(e[2], e[1]), Sub(v, e[1])))

\* abs(c / dx) scaled by dx: with int abs(int) the argument is first
\* converted to an int, which drops its fraction.
AbsOver(c, dx, truncating) ==
    IF truncating THEN (c \div dx) * dx ELSE c

DistNumOf(v, e, truncating) ==
    IF IsVertical(e) THEN pitch * Abs(e[1][1] - v[1])
    ELSE AbsOver(pitch * EdgeCross(v, e), Abs(e[2][1] - e[1][1]), truncating)

DistNum(v, e) == DistNumOf(v, e, intAbs)

DistLen2(e) ==
    IF IsVertical(e) THEN 1
    ELSE Dot(Sub(e[2], e[1]), Sub(e[2], e[1]))

\* A distance as the pair <<numerator, squared denominator>>
Dist(v, e) == <<DistNum(v, e), DistLen2(e)>>

\* d1 < d2 for two such pairs, exactly
DistLT(d1, d2) == d1[1] * d1[1] * d2[2] < d2[1] * d2[1] * d1[2]

RECURSIVE SqrtBetween(_, _, _)
SqrtBetween(n, lo, hi) ==
    IF lo >= hi THEN lo
    ELSE LET mid == (lo + hi + 1) \div 2
         IN  IF mid * mid <= n THEN SqrtBetween(n, mid, hi)
             ELSE SqrtBetween(n, lo, mid - 1)

\* floor(sqrt(n))
ISqrt(n) == SqrtBetween(n, 0, 46340)

MaxLen2 ==
    Max2(Max2(GridX * GridX + GridY * GridY, WideX * WideX + WideY * WideY),
         TravX * TravX + TravY * TravY)

\* sqrt(L) in fixed point, for every squared edge length L of the grid
Root == [L \in 1..MaxLen2 |-> ISqrt(L * Scale * Scale)]

\* A distance pair in fixed point
DistFix(d) == (d[1] * Scale * Scale) \div Root[d[2]]

\* ----------------------------------------------------- getWidth (322-353)
\* The first index of dist whose distance no other exceeds (the scan keeps a
\* vertex only when currDistance > maxDistance).
FirstMax(dist) ==
    CHOOSE a \in DOMAIN dist :
        \A b \in DOMAIN dist :
            IF b < a THEN DistLT(dist[b], dist[a]) ELSE ~DistLT(dist[a], dist[b])

\* The first index of dist whose distance is the least (the scan keeps an edge
\* only when maxDistance < width.length()).
FirstMin(dist) ==
    CHOOSE a \in DOMAIN dist :
        \A b \in DOMAIN dist :
            IF b < a THEN DistLT(dist[a], dist[b]) ELSE ~DistLT(dist[b], dist[a])

\* The offset j in 2..n-1 of the vertex i+j farthest from edge i
FarOffset(p, i) ==
    FirstMax([j \in 2..(Len(p) - 1) |-> Dist(V(p, i + j), PolyEdge(p, i))])

\* The antipodal vertex of edge i
Antipodal(p, i) == V(p, i + FarOffset(p, i))

\* The span of edge i: <<antipodal vertex, edge>>
SpanOf(p, i) == <<Antipodal(p, i), PolyEdge(p, i)>>

\* Span::length() as a distance pair
SpanDist(s) == Dist(s[1], s[2])

\* The index of the span getWidth returns
WidthIndex(p) ==
    FirstMin([i \in 0..(Len(p) - 1) |-> SpanDist(SpanOf(p, i))])

\* getWidth(p): the span <<v, e>>
getWidth(p) == SpanOf(p, WidthIndex(p))

\* Span::length() in fixed point
SpanLength(s) == DistFix(SpanDist(s))

\* --------------------------------------------------------- split (372-389)
\* split(p, v1, v2, p1, p2): <<p1, p2>>; nothing is stored when the indices
\* are less than 2 apart (the early return), modelled as two empty polygons.
\* Variant of split whose first polygon stops one vertex short of v2.
splitOpen(p, a, b) ==
    IF Abs(a - b) < 2 THEN <<(<< >>), (<< >>)>>
    ELSE << [k \in 1..(Max2(a, b) - Min2(a, b)) |->
                V(p, Min2(a, b) + k - 1)],
            [k \in 1..(Len(p) - Max2(a, b) + Min2(a, b) + 1) |->
                V(p, Max2(a, b) + k - 1)] >>

\* Variant of split whose second polygon starts one vertex late.
splitShifted(p, a, b) ==
    IF Abs(a - b) < 2 THEN <<(<< >>), (<< >>)>>
    ELSE << [k \in 1..(Max2(a, b) - Min2(a, b) + 1) |->
                V(p, Min2(a, b) + k - 1)],
            [k \in 1..(Len(p) - Max2(a, b) + Min2(a, b) + 1) |->
                V(p, Max2(a, b) + k)] >>

split(p, a, b) ==
    IF Abs(a - b) < 2 THEN <<(<< >>), (<< >>)>>
    ELSE << [k \in 1..(Max2(a, b) - Min2(a, b) + 1) |->
                V(p, Min2(a, b) + k - 1)],
            [k \in 1..(Len(p) - Max2(a, b) + Min2(a, b) + 1) |->
                V(p, Max2(a, b) + k - 1)] >>

\* ----------------------------------------------------- decompose (391-480)
\* theta2 (434-438): the angle of the edge into the concave vertex, turned
\* round.  "theta2 - PI < EPSILON" holds for every angle theta() returns (all
\* are <= pi), so theta2 becomes 0.
InAngle(inTheta) ==
    IF AngleLE(inTheta, PiAngle) THEN ZeroAngle ELSE AddPi(inTheta)

\* The test of splitTheta against theta1 and theta2 (439-455)
AngleTest(theta1, theta2, splitTheta) ==
    IF AngleLT(theta2, theta1)
    THEN ~(AngleLT(theta2, splitTheta) /\ AngleLT(splitTheta, theta1))
    ELSE AngleLE(theta1, splitTheta) /\ AngleLE(splitTheta, theta2)

\* The interior-angle test of a chord from concave vertex c to vertex j
ChordValid(p, c, j) ==
    AngleTest(Theta(V(p, c), V(p, c + 1)),
              InAngle(Theta(V(p, c - 1 + Len(p)), V(p, c))),
              Theta(V(p, c), V(p, j)))

\* j is c's successor or predecessor (425-431)
AdjacentIndex(p, c, j) ==
    \/ (c + 1) % Len(p) = j
    \/ (c - 1 + Len(p)) % Len(p) = j

\* The chords one pass of the loops over i and j (420-472) scores.
Candidates(p, acceptConvex) ==
    {ch \in ConcaveVerts(p) \X (0..(Len(p) - 1)) :
        /\ ch[1] # ch[2]
        /\ ~AdjacentIndex(p, ch[1], ch[2])
        /\ (isConcave(p, ch[2]) \/ acceptConvex)
        /\ ChordValid(p, ch[1], ch[2])}

\* getWidth(p1).length() + getWidth(p2).length() (462)
SumWidths(s) == SpanLength(getWidth(s[1])) + SpanLength(getWidth(s[2]))

WidthSum(p, c, j) == SumWidths(split(p, c, j))

\* The first, in the order of the loops, of least width sum
\* (widthSum < minWidthSum)
LeastOf(scored) ==
    CHOOSE a \in scored : \A b \in scored :
        \/ a[1] < b[1]
        \/ a[1] = b[1] /\ a[2] < b[2]
        \/ a[1] = b[1] /\ a[2] = b[2] /\ a[3] <= b[3]

ChordOf(scoredChord) == <<scoredChord[2], scoredChord[3]>>

\* The chord a pass over cands keeps; << >> when it scores none
LeastChord(p, cands) ==
    IF cands = {} THEN << >>
    ELSE ChordOf(LeastOf({<<WidthSum(p, ch[1], ch[2]), ch[1], ch[2]>> :
                             ch \in cands}))

\* The pass that ends the while loop (418-475): the first pass accepts a
\* convex target only when p has a single concave vertex; when it scores no
\* chord, acceptConvex is set and the next pass accepts every target.
ScoringPass(first, second) == IF first # {} THEN first ELSE second

\* The chord decompose splits at, or << >> when the while loop never ends: no
\* chord is valid even with acceptConvex.
ChosenChord(p) ==
    LeastChord(p, ScoringPass(Candidates(p, Cardinality(ConcaveVerts(p)) = 1),
                              Candidates(p, TRUE)))

\* ---------------------------------------------- Polygon::adjacent (174-197)
\* The indices <<i, j>> of the first shared edge, in the order of the loops,
\* or <<-1, -1>>.
adjacent(p, q) ==
    LET shared == {ij \in (0..(Len(p) - 1)) \X (0..(Len(q) - 1)) :
                      EdgeEq(PolyEdge(p, ij[1]), PolyEdge(q, ij[2]))}
    IN  IF shared = {} THEN <<-1, -1>>
        ELSE CHOOSE a \in shared : \A b \in shared :
                a[1] < b[1] \/ (a[1] = b[1] /\ a[2] <= b[2])

\* --------------------------------------------------------- merge (482-491)
merge(p1, p2, i, j) ==
    [z \in 1..Len(p1) |-> V(p1, i + z)]
        \o [z \in 1..(Len(p2) - 2) |-> V(p2, j + 1 + z)]

\* ----------------------------------------------- mergeSubregions (493-523)
\* The loops run over positions of the list l.  m.i1 and m.i2 are the
\* positions of it1 and it2 (Len + 1 is l.end()).  After l.erase(it2) the
\* iterator it2 is invalid and the code goes on using it (continue): that is
\* undefined behaviour.  Two outcomes are modelled: the program crashes at the
\* first use (m.crashOnUse), or the erased node is still readable, with its old
\* polygon (m.erased) and its old successor, which is then at position m.i2;
\* erasing the erased node a second time crashes.
MergeInit(l, crashOnUse) ==
    [l |-> l, i1 |-> 1, i2 |-> 1, stale |-> FALSE, erased |-> << >>,
     stored |-> << >>, crashed |-> FALSE, crashOnUse |-> crashOnUse,
     usedErased |-> FALSE]

\* numConcave == 0 (506-511): the merged polygon has no concave vertex
MergeKept(mergedPoly) == ConcaveVerts(mergedPoly) = {}

\* Variant of AfterErase that ends both loops after the merge.
AfterEraseStop(m, B, mergedPoly) ==
    [m EXCEPT
       !.l = [k \in 1..(Len(m.l) - 1) |->
                IF k = (IF m.i2 < m.i1 THEN m.i1 - 1 ELSE m.i1)
                THEN mergedPoly
                ELSE IF k < m.i2 THEN m.l[k] ELSE m.l[k + 1]],
       !.i1 = Len(m.l),
       !.stored = Append(m.stored, mergedPoly)]

\* 512-515: *it1 = merged; l.erase(it2); continue.  it2 is left at the
\* erased node.
AfterErase(m, B, mergedPoly) ==
    [m EXCEPT
       !.l = [k \in 1..(Len(m.l) - 1) |->
                IF k = (IF m.i2 < m.i1 THEN m.i1 - 1 ELSE m.i1)
                THEN mergedPoly
                ELSE IF k < m.i2 THEN m.l[k] ELSE m.l[k + 1]],
       !.i1 = IF m.i2 < m.i1 THEN m.i1 - 1 ELSE m.i1,
       !.stale = TRUE,
       !.erased = B,
       !.stored = Append(m.stored, mergedPoly)]

RECURSIVE MergeRun(_)
MergeRun(m) ==
    IF m.crashed \/ m.i1 > Len(m.l) THEN m
    ELSE IF ~m.stale /\ m.i2 > Len(m.l)
         THEN MergeRun([m EXCEPT !.i1 = m.i1 + 1, !.i2 = 1])
    ELSE IF m.stale /\ m.crashOnUse
         THEN [m EXCEPT !.crashed = TRUE, !.usedErased = TRUE]
    ELSE LET A == m.l[m.i1]
             B == IF m.stale THEN m.erased ELSE m.l[m.i2]
             ij == adjacent(A, B)
             mergedPoly == merge(A, B, ij[1], ij[2])
             \* ++it2: from the erased node to its old successor
             advance == IF m.stale THEN [m EXCEPT !.stale = FALSE]
                        ELSE [m EXCEPT !.i2 = m.i2 + 1]
             seen == [advance EXCEPT !.usedErased = m.usedErased \/ m.stale]
         IN  IF (m.stale \/ m.i1 # m.i2) /\ ij[1] >= 0
                 /\ MergeKept(mergedPoly)
             THEN IF m.stale
                  THEN [m EXCEPT !.crashed = TRUE, !.usedErased = TRUE]
                  ELSE MergeRun(AfterErase(m, B, mergedPoly))
             ELSE MergeRun(seen)

mergeSubregions(l, crashOnUse) == MergeRun(MergeInit(l, crashOnUse))

\* ------------------------------------------------ the input (Polygon, 163)
\* "The polygon is assumed to be simple with no holes"; no three consecutive
\* vertices are collinear.
Orient(a, b, c) ==
    LET v == Cross(Sub(b, a), Sub(c, a))
    IN  IF v > 0 THEN 1 ELSE IF v < 0 THEN -1 ELSE 0

InBox(a, b, c) ==
    /\ Min2(a[1], b[1]) <= c[1] /\ c[1] <= Max2(a[1], b[1])
    /\ Min2(a[2], b[2]) <= c[2] /\ c[2] <= Max2(a[2], b[2])

\* The closed segments ab and cd have a point in common.
SegmentsTouch(a, b, c, d) ==
    \/ Orient(a, b, c) # Orient(a, b, d) /\ Orient(c, d, a) # Orient(c, d, b)
    \/ Orient(a, b, c) = 0 /\ InBox(a, b, c)
    \/ Orient(a, b, d) = 0 /\ InBox(a, b, d)
    \/ Orient(c, d, a) = 0 /\ InBox(c, d, a)
    \/ Orient(c, d, b) = 0 /\ InBox(c, d, b)

\* pt can follow the vertices read so far.
CanAppend(v, pt) ==
    LET n == Len(v)
    IN  /\ \A i \in 1..n : v[i] # pt
        /\ n >= 2 => Orient(v[n - 1], v[n], pt) # 0
        /\ \A i \in 1..(n - 2) : ~SegmentsTouch(v[i], v[i + 1], v[n], pt)

\* The vertices read so far close into a simple polygon.
CanClose(v) ==
    LET n == Len(v)
    IN  /\ n >= 3
        /\ Orient(v[n - 1], v[n], v[1]) # 0
        /\ Orient(v[n], v[1], v[2]) # 0
        /\ \A i \in 2..(n - 2) : ~SegmentsTouch(v[i], v[i + 1], v[n], v[1])

\* A simple polygon (used by the properties).
IsSimple(p) ==
    LET n == Len(p)
    IN  /\ \A i, j \in 0..(n - 1) : i < j => V(p, i) # V(p, j)
        /\ \A i, j \in 0..(n - 1) :
              (i < j /\ j # i + 1 /\ ~(i = 0 /\ j = n - 1)) =>
                  ~SegmentsTouch(V(p, i), V(p, i + 1), V(p, j), V(p, j + 1))
        /\ \A i \in 0..(n - 1) :
              ~(Orient(V(p, i), V(p, i + 1), V(p, i + 2)) = 0
                /\ Dot(Sub(V(p, i), V(p, i + 1)),
                       Sub(V(p, i + 2), V(p, i + 1))) > 0)

\* ------------------------------------------------------ GPS conversions
\* An angle, given by its cosine and its sine: the two are all that
\* GPStoCartesian takes from a longitude or a latitude
AngleOf(c, s, h) == <<Rat(c, h), Rat(s, h)>>

\* The angle 0
NoTurn == AngleOf(1, 0, 1)

\* The latitudes of the reference points: the two poles and the four angles of
\* the 3-4-5 triangle on either side of the equator
RefLatitudes ==
    {AngleOf(4, 3, 5), AngleOf(3, 4, 5), AngleOf(4, -3, 5), AngleOf(3, -4, 5),
     AngleOf(0, 1, 1), AngleOf(0, -1, 1)}

\* The longitudes of the reference points: 0 and pi
RefLongitudes == {NoTurn, AngleOf(-1, 0, 1)}

\* The angle whose half has the cotangent HalfCot, in either direction: with
\* HalfCot = 256 it is 0.0078124 rad, 49.8 km on a sphere of 6378137 m
NearTurns ==
    {NoTurn,
     AngleOf(HalfCot * HalfCot - 1, 2 * HalfCot, HalfCot * HalfCot + 1),
     AngleOf(HalfCot * HalfCot - 1, -(2 * HalfCot), HalfCot * HalfCot + 1)}

\* The angle a + d
TurnBy(a, d) ==
    <<RSub(RMul(a[1], d[1]), RMul(a[2], d[2])),
      RAdd(RMul(a[2], d[1]), RMul(a[1], d[2]))>>

\* The value of a division by zero: a quotient that is not a number
NonFinite == <<1, 0>>

\* operator / of float_type
FDiv(a, b) == IF b[1] = 0 \/ a[2] = 0 THEN NonFinite ELSE RDiv(a, b)

\* sqrt: exact where the root is rational, else rounded down to 1/SqrtDen
RSqrt(x) ==
    IF ISqrt(x[1]) * ISqrt(x[1]) = x[1] /\ ISqrt(x[2]) * ISqrt(x[2]) = x[2]
    THEN <<ISqrt(x[1]), ISqrt(x[2])>>
    ELSE Rat(ISqrt((x[1] * SqrtDen * SqrtDen) \div x[2]), SqrtDen)

\* EARTH_RADIUS, on the model's sphere
EARTH_RADIUS == RInt(EarthRadius)

\* GPStoCartesian, Conversions.cpp 119-127 and main.cpp 170-178
GPStoCartesian(longitude, latitude) ==
    <<RMul(RMul(EARTH_RADIUS, latitude[1]), longitude[1]),
      RMul(RMul(EARTH_RADIUS, latitude[1]), longitude[2]),
      RMul(EARTH_RADIUS, latitude[2])>>

\* namespace global before init: the vectors are empty, convMatrix is zeroed
FreshGlobal ==
    [refCart |-> << >>, ourX |-> << >>, ourY |-> << >>, ourZ |-> << >>,
     convMatrix |-> [i \in 1..3 |-> [j \in 1..3 |-> RInt(0)]],
     REF_LONG |-> NoTurn, REF_LAT |-> NoTurn]

\* init: the reference point and its Cartesian position are stored; the basis
\* vectors are left as they are
init(g, longitude, latitude) ==
    [g EXCEPT !.REF_LONG = longitude, !.REF_LAT = latitude,
              !.refCart = GPStoCartesian(longitude, latitude)]

\* The sum of the squares of the first three elements of v
Norm2(v) ==
    RAdd(RAdd(RMul(v[1], v[1]), RMul(v[2], v[2])), RMul(v[3], v[3]))

\* computeBasis: the third push_back of ourX, the Z of the point of the
\* tangent plane over ourX[X], ourX[Y]
PlaneZ(z, ref, x) ==
    FDiv(RAdd(RSub(RAdd(RSub(RMul(z[1], ref[1]), RMul(z[1], x[1])),
                        RMul(z[2], ref[2])),
                   RMul(z[2], x[2])),
              RMul(z[3], ref[3])),
         z[3])

\* computeBasis: ourX after its three push_back
PushedX(g) ==
    (g.ourX \o <<RInt(1), RInt(0)>>)
        \o <<PlaneZ(g.refCart, g.refCart, g.ourX \o <<RInt(1), RInt(0)>>)>>

\* computeBasis: ourX[X], ourX[Y], ourX[Z] -= refCart
Anchored(x, ref) ==
    [i \in 1..Len(x) |-> IF i <= 3 THEN RSub(x[i], ref[i]) ELSE x[i]]

\* computeBasis: the three push_back of ourY, the cross product of ourZ and
\* the first three elements of ourX
PushedY(y, z, x) ==
    y \o <<RSub(RMul(z[2], x[3]), RMul(z[3], x[2])),
           RNeg(RSub(RMul(z[1], x[3]), RMul(z[3], x[1]))),
           RSub(RMul(z[1], x[2]), RMul(z[2], x[1]))>>

\* computeBasis: every element of v divided by length
Unit(v, length) == [i \in 1..Len(v) |-> FDiv(v[i], length)]

\* computeBasis: the three vectors scaled by the length of their first three
\* elements
UnitAxes(x, y, z) ==
    [ourX |-> Unit(x, RSqrt(Norm2(x))), ourY |-> Unit(y, RSqrt(Norm2(y))),
     ourZ |-> Unit(z, RSqrt(Norm2(z)))]

\* computeBasis: the vectors before scaling, from ourX anchored at refCart
AxesFrom(g, x) == UnitAxes(x, PushedY(g.ourY, g.refCart, x), g.refCart)

\* computeBasis: the basis vectors it leaves in namespace global
Axes(g) ==
    CHOOSE a \in {AxesFrom(g, x) : x \in {Anchored(PushedX(g), g.refCart)}} :
        TRUE

\* computeBasis: standardMatrix, the first three elements of the basis
\* vectors as columns
standardMatrix(a) ==
    [i \in 1..3 |-> <<a.ourX[i], a.ourY[i], a.ourZ[i]>>]

\* a * b - c * d
Minor(a, b, c, d) == RSub(RMul(a, b), RMul(c, d))

\* computeBasis: determinate
determinate(m) ==
    RAdd(RSub(RMul(m[1][1], Minor(m[2][2], m[3][3], m[2][3], m[3][2])),
              RMul(m[1][2], Minor(m[2][1], m[3][3], m[2][3], m[3][1]))),
         RMul(m[1][3], Minor(m[2][1], m[3][2], m[2][2], m[3][1])))

\* computeBasis: the transpose of standardMatrix
Transposed(m) == [i \in 1..3 |-> [j \in 1..3 |-> m[j][i]]]

\* computeBasis: the minors of the transposed matrix
Minors(m) ==
    << <<Minor(m[2][2], m[3][3], m[2][3], m[3][2]),
         Minor(m[2][1], m[3][3], m[2][3], m[3][1]),
         Minor(m[2][1], m[3][2], m[2][2], m[3][1])>>,
       <<Minor(m[1][2], m[3][3], m[1][3], m[3][2]),
         Minor(m[1][1], m[3][3], m[1][3], m[3][1]),
         Minor(m[1][1], m[3][2], m[1][2], m[3][1])>>,
       <<Minor(m[1][2], m[2][3], m[1][3], m[2][2]),
         Minor(m[1][1], m[2][3], m[1][3], m[2][1]),
         Minor(m[1][1], m[2][2], m[1][2], m[2][1])>> >>

\* computeBasis: every minor divided by the determinant, the sign of
\* [0][1], [1][0], [1][2] and [2][1] flipped
Inverse(c, d) ==
    [i \in 1..3 |-> [j \in 1..3 |->
        IF (i + j) % 2 = 1 /\ FDiv(c[i][j], d) # NonFinite
        THEN RNeg(FDiv(c[i][j], d)) ELSE FDiv(c[i][j], d)]]

\* computeBasis: convMatrix, the inverse of standardMatrix
ConvMatrixOf(m) ==
    CHOOSE c \in {Inverse(Minors(Transposed(m)), d) : d \in {determinate(m)}} :
        TRUE

\* The basis vectors and the matrix stored in namespace global
WithAxes(g, a) ==
    [g EXCEPT !.ourX = a.ourX, !.ourY = a.ourY, !.ourZ = a.ourZ,
              !.convMatrix = ConvMatrixOf(standardMatrix(a))]

\* computeBasis
computeBasis(g) == CHOOSE r \in {WithAxes(g, a) : a \in {Axes(g)}} : TRUE

\* GPStoCoord: the Cartesian position of the point less refCart
StandardCart(g, longitude, latitude) ==
    [i \in 1..3 |-> RSub(GPStoCartesian(longitude, latitude)[i], g.refCart[i])]

\* A row of the conversion matrix times a vector
RowTimes(row, s) ==
    RAdd(RAdd(RMul(row[1], s[1]), RMul(row[2], s[2])), RMul(row[3], s[3]))

\* GPStoCoord of Conversions.cpp from standardCart
CoordOf(g, s) == <<RowTimes(g.convMatrix[1], s), RowTimes(g.convMatrix[2], s)>>

\* GPStoCoord of Conversions.cpp
GPStoCoord(g, longitude, latitude) ==
    CHOOSE c \in {CoordOf(g, s) : s \in {StandardCart(g, longitude, latitude)}} :
        TRUE

\* GPStoCoord of main.cpp from standardCart: standardCart[Z] is added to
\* convMatrix[0][2], where Conversions.cpp multiplies the two
MainCoordOf(g, s) ==
    <<RAdd(RAdd(RAdd(RMul(g.convMatrix[1][1], s[1]),
                     RMul(g.convMatrix[1][2], s[2])),
                g.convMatrix[1][3]),
           s[3]),
      RowTimes(g.convMatrix[2], s)>>

\* GPStoCoord of main.cpp
MainGPStoCoord(g, longitude, latitude) ==
    CHOOSE c \in {MainCoordOf(g, s) :
                    s \in {StandardCart(g, longitude, latitude)}} : TRUE

\* CoordtoGPS: standardCoord, the Cartesian position of the Coord c
StandardCoord(g, c) ==
    [i \in 1..3 |->
        RAdd(RAdd(RMul(c[1], g.ourX[i]), RMul(c[2], g.ourY[i])), g.refCart[i])]

\* CoordtoGPS: the longitude is atan2 of the pair east, the latitude is asin
\* of sinLat
GPSOf(s) ==
    [east |-> <<s[1], s[2]>>, sinLat |-> RDiv(s[3], EARTH_RADIUS)]

\* CoordtoGPS
CoordtoGPS(g, c) == CHOOSE r \in {GPSOf(s) : s \in {StandardCoord(g, c)}} : TRUE

\* Every number of the basis is finite and has a denominator within BasisDen
SmallBasis(g) ==
    /\ \A i \in 1..3 : \A j \in 1..3 :
          g.convMatrix[i][j][2] \in 1..BasisDen
    /\ \A i \in 1..Len(g.ourX) : g.ourX[i][2] \in 1..BasisDen
    /\ \A i \in 1..Len(g.ourY) : g.ourY[i][2] \in 1..BasisDen
    /\ \A i \in 1..Len(g.ourZ) : g.ourZ[i][2] \in 1..BasisDen

\* ---------------------------------------------------------------- actions
Init ==
    /\ intAbs \in BOOLEAN
    /\ field = GridPoints
    /\ pc = "read"
    /\ searchArea = << >>
    /\ pending = << >>
    /\ subregions = << >>
    /\ lastSplit = << >>
    /\ merges = << >>
    /\ passes = 0
    /\ firstPass = << >>
    /\ pitch = 1
    /\ radius = ConfigRadius
    /\ sweepLine = << >>
    /\ sweepJ = 0
    /\ waypoints = << >>
    /\ boundary = << >>
    /\ path = << >>
    /\ calls = << >>
    /\ unit = "main.cpp"
    /\ global = FreshGlobal
    /\ local = << >>
    /\ outFile = 0
    /\ TourIdle

\* main, 92-102: searchArea.v.push_back of the next point of the search grid
ReadVertex(pt) ==
    /\ pc = "read"
    /\ Len(searchArea) < MaxVerts
    /\ pt \in field
    /\ CanAppend(searchArea, pt)
    /\ searchArea' = Append(searchArea, pt)
    /\ UNCHANGED <<tourVars, intAbs, field, pc, pending, subregions, lastSplit, merges,
                   passes, firstPass,
                   routeVars, geoVars, outFile>>

\* main, 104-105 and 143: reverse a clockwise polygon; searchPath calls
\* decompose(p, subregions)
Canonicalise ==
    /\ pc = "read"
    /\ CanClose(searchArea)
    /\ searchArea' = IF clockwise(searchArea) THEN Reverse(searchArea)
                     ELSE searchArea
    /\ pending' = <<searchArea'>>
    /\ pc' = "decompose"
    /\ UNCHANGED <<tourVars, intAbs, field, subregions, lastSplit, merges, passes, firstPass,
                   routeVars, geoVars, outFile>>

\* Variant of DecomposeConvex that stores the polygon whether or not it has a
\* concave vertex.
DecomposeConvexAny ==
    /\ pc = "decompose"
    /\ pending # << >>
    /\ subregions' = Append(subregions, Head(pending))
    /\ pending' = Tail(pending)
    /\ UNCHANGED <<tourVars, intAbs, field, pc, searchArea, lastSplit, merges, passes,
                   firstPass,
                   routeVars, geoVars, outFile>>

\* decompose, 404-408: a polygon with no concave vertex is stored
DecomposeConvex ==
    /\ pc = "decompose"
    /\ pending # << >>
    /\ ConcaveVerts(Head(pending)) = {}
    /\ subregions' = Append(subregions, Head(pending))
    /\ pending' = Tail(pending)
    /\ UNCHANGED <<tourVars, intAbs, field, pc, searchArea, lastSplit, merges, passes,
                   firstPass,
                   routeVars, geoVars, outFile>>

\* decompose, 416-479: split at the chosen chord, decompose p1, then p2
DecomposeSplit ==
    /\ pc = "decompose"
    /\ pending # << >>
    /\ ConcaveVerts(Head(pending)) # {}
    /\ \E ch \in {ChosenChord(Head(pending))} :
          /\ ch # << >>
          /\ \E s \in {split(Head(pending), ch[1], ch[2])} :
                /\ pending' = <<s[1], s[2]>> \o Tail(pending)
                /\ lastSplit' = <<Head(pending), ch[1], ch[2], s[1], s[2]>>
    /\ UNCHANGED <<tourVars, intAbs, field, pc, searchArea, subregions, merges, passes,
                   firstPass,
                   routeVars, geoVars, outFile>>

\* decompose, 418-475: no chord passes the test even with acceptConvex, so
\* minWidthSum stays -1 and the while loop runs again, for ever
DecomposeSpin ==
    /\ pc \in {"decompose", "spin"}
    /\ pending # << >>
    /\ ConcaveVerts(Head(pending)) # {}
    /\ ChosenChord(Head(pending)) = << >>
    /\ pc' = "spin"
    /\ UNCHANGED <<tourVars, intAbs, field, searchArea, pending, subregions, lastSplit,
                   merges, passes, firstPass,
                   routeVars, geoVars, outFile>>

\* searchPath, 821: mergeSubregions(subregions); then once more, for the
\* properties that compare a second application with the first
MergeSubregions(crashOnUse) ==
    /\ pc \in {"decompose", "merged"}
    /\ pending = << >>
    /\ passes < 2
    /\ \E m \in {mergeSubregions(subregions, crashOnUse)} :
          /\ subregions' = m.l
          /\ merges' = merges \o m.stored
          /\ pc' = IF m.crashed THEN "crash" ELSE "merged"
          /\ passes' = IF m.crashed THEN passes ELSE passes + 1
          /\ firstPass' = IF passes = 0 /\ ~m.crashed THEN m.l ELSE firstPass
    /\ UNCHANGED <<tourVars, intAbs, field, searchArea, pending, lastSplit,
                   routeVars, geoVars, outFile>>

Next ==
    \/ \E pt \in GridPoints \cup WidePoints : ReadVertex(pt)
    \/ Canonicalise
    \/ DecomposeConvex
    \/ DecomposeSplit
    \/ DecomposeSpin
    \/ \E crashOnUse \in BOOLEAN : MergeSubregions(crashOnUse)

Spec == Init /\ [][Next]_vars

\* main, 92: the first point read is the origin; the others come from the
\* wider grid.
InitWide ==
    /\ intAbs \in BOOLEAN
    /\ field = WidePoints
    /\ pc = "read"
    /\ searchArea = << <<0, 0>> >>
    /\ pending = << >>
    /\ subregions = << >>
    /\ lastSplit = << >>
    /\ merges = << >>
    /\ passes = 0
    /\ firstPass = << >>
    /\ pitch = 1
    /\ radius = ConfigRadius
    /\ sweepLine = << >>
    /\ sweepJ = 0
    /\ waypoints = << >>
    /\ boundary = << >>
    /\ path = << >>
    /\ calls = << >>
    /\ unit = "main.cpp"
    /\ global = FreshGlobal
    /\ local = << >>
    /\ outFile = 0
    /\ TourIdle

SpecWide == InitWide /\ [][Next]_vars

\* The search grid with points EllPitch metres apart
InitEll ==
    /\ intAbs \in BOOLEAN
    /\ field = GridPoints
    /\ pc = "read"
    /\ searchArea = << >>
    /\ pending = << >>
    /\ subregions = << >>
    /\ lastSplit = << >>
    /\ merges = << >>
    /\ passes = 0
    /\ firstPass = << >>
    /\ pitch = EllPitch
    /\ radius = ConfigRadius
    /\ sweepLine = << >>
    /\ sweepJ = 0
    /\ waypoints = << >>
    /\ boundary = << >>
    /\ path = << >>
    /\ calls = << >>
    /\ unit = "main.cpp"
    /\ global = FreshGlobal
    /\ local = << >>
    /\ outFile = 0
    /\ TourIdle

SpecEll == InitEll /\ [][Next]_vars

\* ------------------------------------------------ main, start to planning
\* main, 103-105: the search file is at its end, whatever the number of points
\* read; a clockwise list is reversed
CloseSearch ==
    /\ pc = "read"
    /\ searchArea # << >>
    /\ Len(searchArea) < 3 \/ CanClose(searchArea)
    /\ searchArea' = IF clockwise(searchArea) THEN Reverse(searchArea)
                     ELSE searchArea
    /\ pc' = "mission"
    /\ UNCHANGED <<tourVars, intAbs, field, decompVars, routeVars, geoVars, outFile>>

\* main, 122-139: every record of the mission file is written to outFile as
\* it is read; the loop body runs once even for an empty file
CopyMission(n) ==
    /\ pc = "mission"
    /\ outFile' = outFile + n
    /\ pc' = "plan"
    /\ UNCHANGED <<tourVars, intAbs, field, searchArea, decompVars, routeVars, geoVars>>

\* main, 143, and decompose, 395: searchPath calls decompose, whose assert
\* ends the process for a polygon of fewer than 3 points
BeginPlan ==
    /\ pc = "plan"
    /\ pc' = IF Len(searchArea) > 2 THEN "decompose" ELSE "abort"
    /\ pending' = IF Len(searchArea) > 2 THEN <<searchArea>> ELSE pending
    /\ UNCHANGED <<tourVars, intAbs, field, searchArea, subregions, lastSplit, merges,
                   passes, firstPass, routeVars, geoVars, outFile>>

NextMain ==
    \/ \E pt \in GridPoints : ReadVertex(pt)
    \/ CloseSearch
    \/ \E n \in 1..MaxMission : CopyMission(n)
    \/ BeginPlan
    \/ DecomposeConvex
    \/ DecomposeSplit
    \/ DecomposeSpin
    \/ \E crashOnUse \in BOOLEAN : MergeSubregions(crashOnUse)

SpecMain == Init /\ [][NextMain]_vars

\* main, 103-105, for a search polygon whose vertices are the points read
\* divided by FineDen: a list that clockwise reports as clockwise is reversed
CanonicaliseFine ==
    /\ pc = "read"
    /\ CanClose(searchArea)
    /\ searchArea' = IF clockwiseOver(searchArea, FineDen)
                     THEN Reverse(searchArea) ELSE searchArea
    /\ pc' = "canonical"
    /\ UNCHANGED <<tourVars, intAbs, field, decompVars, routeVars, geoVars, outFile>>

NextFine ==
    \/ \E pt \in GridPoints : ReadVertex(pt)
    \/ CanonicaliseFine

SpecFine == Init /\ [][NextFine]_vars

\* ------------------------------------------------- intersection (528-552)
\* abs(x) < EPSILON: of the rationals that occur only 0 is below DBL_EPSILON;
\* with int abs(int) x is first converted to an int.
AbsLtEps(x) == IF intAbs THEN Abs(x[1]) < x[2] ELSE x[1] = 0

\* 0 <= t && t <= 1
InUnit(t) == t[1] >= 0 /\ t[1] <= t[2]

\* lo <= x && x <= hi
Within(lo, x, hi) == ~RLess(x, lo) /\ ~RLess(hi, x)

\* rxs = cross(r, s), r = p2 - p1, s = q2 - q1
Rxs(e1, e2) == RCross(PSub(e1[2], e1[1]), PSub(e2[2], e2[1]))

\* t = cross(q1 - p1, s) / rxs
InterT(e1, e2) ==
    RDiv(RCross(PSub(e2[1], e1[1]), PSub(e2[2], e2[1])), Rxs(e1, e2))

\* u = cross(q1 - p1, r) / rxs
InterU(e1, e2) ==
    RDiv(RCross(PSub(e2[1], e1[1]), PSub(e1[2], e1[1])), Rxs(e1, e2))

\* intersect = p1 + r * t
InterPoint(e1, t) == PAdd(e1[1], PScale(PSub(e1[2], e1[1]), t))

\* The edges are parallel.  When e1 stands for a sweep line (reach > 0), rxs
\* in the code is that of the extended line, a multiple of the integer rxs of
\* e1 by more than 1, and is below 1 in magnitude only when it is 0.
Parallel(e1, e2, reach) ==
    IF reach = 0 THEN AbsLtEps(Rxs(e1, e2)) ELSE Rxs(e1, e2)[1] = 0

\* The point at t is on the first edge: 0 <= t <= 1 of the edge itself.  A
\* sweep line is kept as the edge e1 it was before traverse extended it by
\* reach in x at both ends (to y = -reach and y = reach when vertical), and t
\* is that of e1: the point is on the extended edge when it is no more than
\* reach in x beyond the ends of e1.
OnFirst(e1, t, reach) ==
    IF reach = 0 THEN InUnit(t)
    ELSE IF e1[1][1] = e1[2][1]
         THEN Within(RInt(-reach), InterPoint(e1, t)[2], RInt(reach))
         ELSE Within(RInt(-reach),
                     RMul(t, RAbs(RSub(e1[2][1], e1[1][1]))),
                     RAdd(RAbs(RSub(e1[2][1], e1[1][1])), RInt(reach)))

\* intersection(e1, e2, intersect): << >> when it returns false, else
\* <<intersect>>
intersection(e1, e2, reach) ==
    IF Parallel(e1, e2, reach) THEN << >>
    ELSE IF InUnit(InterU(e1, e2)) /\ OnFirst(e1, InterT(e1, e2), reach)
         THEN <<InterPoint(e1, InterT(e1, e2))>>
         ELSE << >>

\* ------------------------------------------------------ polygons in metres
\* A vertex in metres
Metres(v) == <<RInt(pitch * v[1]), RInt(pitch * v[2])>>

\* Polygon::edge(i) in metres
MetreEdge(p, i) == <<Metres(V(p, i)), Metres(V(p, i + 1))>>

Len2(e) == Dot(Sub(e[2], e[1]), Sub(e[2], e[1]))

\* The cosine and sine of e.theta() are rational.
RationalDirection(e) == ISqrt(Len2(e)) * ISqrt(Len2(e)) = Len2(e)

\* cos(e.theta() + PI / 2) = -sin(e.theta())
NormalCos(e) == Rat(e[1][2] - e[2][2], ISqrt(Len2(e)))

\* sin(e.theta() + PI / 2) = cos(e.theta())
NormalSin(e) == Rat(e[2][1] - e[1][1], ISqrt(Len2(e)))

\* c * (cos(e.theta() + PI / 2), sin(e.theta() + PI / 2))
Offset(e, c) == <<RMul(c, NormalCos(e)), RMul(c, NormalSin(e))>>

\* ----------------------------------------------------- traverse (554-692)
\* The line moved by the vector d
Shifted(line, d) == <<PAdd(line[1], d), PAdd(line[2], d)>>

\* The edges of p the sweep line meets
SweepHits(p, line) ==
    {i \in 0..(Len(p) - 1) : intersection(line, MetreEdge(p, i), INF) # << >>}

LeastIn(S) == CHOOSE a \in S : \A b \in S : a <= b

\* The intersection of the sweep line with edge i
Hit(p, line, i) == intersection(line, MetreEdge(p, i), INF)[1]

\* abs(x) of a float_type: int abs(int) converts x to an int first
CAbs(x) == IF intAbs THEN RTrunc(RAbs(x)) ELSE RAbs(x)

\* abs(CORRECTION * cos(sweepLine.theta())), for the width edge e
CorrectionX(e) == CAbs(RMul(CORRECTION, NormalSin(e)))

\* abs(CORRECTION * sin(sweepLine.theta()))
CorrectionY(e) == CAbs(RMul(CORRECTION, NormalCos(e)))

\* The coordinate a of inter1 after correction, b being that of inter2
Toward(a, b, c) == IF RLess(a, b) THEN RAdd(a, c) ELSE RSub(a, c)

\* The coordinate b of inter2 after correction, a being that of inter1
Back(a, b, c) == IF RLess(a, b) THEN RSub(b, c) ELSE RAdd(b, c)

\* inter1 and inter2 after the corrections of x and of y (608-630)
Corrected(b1, b2, cx, cy) ==
    << <<Toward(b1[1], b2[1], cx), Toward(b1[2], b2[2], cy)>>,
       <<Back(b1[1], b2[1], cx), Back(b1[2], b2[2], cy)>> >>

\* The sign of Edge(v1, v2).theta(): pi/2 or -pi/2 for a vertical edge, 0 or
\* pi for a horizontal one, else atan2(dy, dx)
ThetaSign(v1, v2) ==
    IF v1[1] = v2[1] THEN (IF RLess(v1[2], v2[2]) THEN 1 ELSE -1)
    ELSE IF v1[2] = v2[2] THEN (IF RLess(v1[1], v2[1]) THEN 0 ELSE 1)
    ELSE RSign(RSub(v2[2], v1[2]))

\* tan(1), to four places
TanOne == <<7787, 5000>>

\* abs(Edge(v1, v2).theta()) < EPSILON: theta is 0; with int abs(int), theta is
\* within 1 radian of 0
ThetaNearZero(v1, v2) ==
    IF v1[1] = v2[1] THEN FALSE
    ELSE IF v1[2] = v2[2] THEN RLess(v1[1], v2[1])
    ELSE /\ intAbs
         /\ RLess(v1[1], v2[1])
         /\ RLess(RDiv(RAbs(RSub(v2[2], v1[2])), RSub(v2[1], v1[1])), TanOne)

\* valid (632-642): the waypoints have not crossed each other
Valid(b1, b2, c1, c2) ==
    IF ThetaNearZero(b1, b2)
    THEN ~(\/ RLess(b2[1], b1[1]) /\ RLess(c1[1], c2[1])
           \/ RLess(b1[1], b2[1]) /\ RLess(c2[1], c1[1]))
    ELSE ~(\/ ThetaSign(b1, b2) > 0 /\ ThetaSign(c1, c2) < 0
           \/ ThetaSign(b1, b2) < 0 /\ ThetaSign(c1, c2) > 0)

\* The edges pushed for intersections b1, b2 corrected to c (644-651)
Pushed(b1, b2, c, jj) ==
    IF ~Valid(b1, b2, c[1], c[2]) THEN << >>
    ELSE IF jj % 2 = 0 THEN << <<c[1], c[2]>> >>
    ELSE << <<c[2], c[1]>> >>

PushedAt(b1, b2, e, jj) ==
    Pushed(b1, b2, Corrected(b1, b2, CorrectionX(e), CorrectionY(e)), jj)

\* The edges one iteration of the do loop pushes: inter1 is on the first edge
\* the sweep line meets, inter2 on the next one
SweepEdges(p, line, hits, e, jj) ==
    IF Cardinality(hits) < 2 THEN << >>
    ELSE PushedAt(Hit(p, line, LeastIn(hits)),
                  Hit(p, line, LeastIn(hits \ {LeastIn(hits)})), e, jj)

\* The test edge from v reaches an edge of p (659-691)
Blocked(p, e, v) ==
    \E i \in 0..(Len(p) - 1) :
        intersection(<<v, PAdd(v, Offset(e, RADIUS))>>, MetreEdge(p, i), 0)
            # << >>

\* Variant of Cleared that keeps the last edge whatever the test finds.
ClearedKeep(p, e, w) == w

\* The waypoints after the clearance test of the last edge
Cleared(p, e, w) ==
    IF w = << >> THEN w
    ELSE IF Blocked(p, e, w[Len(w)][1]) \/ Blocked(p, e, w[Len(w)][2])
         THEN SubSeq(w, 1, Len(w) - 1)
         ELSE w

\* main, 92-102: the next point of a convex counter-clockwise search polygon
ReadConvexVertex(pt) ==
    /\ pc = "read"
    /\ Len(searchArea) < MaxTravVerts
    /\ pt \in field
    /\ CanAppend(searchArea, pt)
    /\ Len(searchArea) >= 2 =>
          Orient(searchArea[Len(searchArea) - 1], searchArea[Len(searchArea)],
                 pt) > 0
    /\ searchArea' = Append(searchArea, pt)
    /\ UNCHANGED <<tourVars, intAbs, field, pc, decompVars, routeVars, geoVars, outFile>>

\* searchPath, 825-828, and traverse, 556-588: the polygon is convex; the
\* sweep line is the width edge, moved by OFFSET along the width
TraverseBegin ==
    /\ pc = "merged"
    /\ passes = 1
    /\ ConcaveVerts(searchArea) = {}
    /\ RationalDirection(getWidth(searchArea)[2])
    /\ \E e \in {getWidth(searchArea)[2]} :
          sweepLine' = Shifted(<<Metres(e[1]), Metres(e[2])>>,
                               Offset(e, OFFSET))
    /\ sweepJ' = 0
    /\ waypoints' = << >>
    /\ pc' = "sweep"
    /\ UNCHANGED <<tourVars, intAbs, field, searchArea, decompVars, geoVars, outFile, pitch, radius, boundary,
                   path, calls>>

\* traverse, 589-658: one iteration of the do loop
SweepStep ==
    /\ pc = "sweep"
    /\ \E hits \in {SweepHits(searchArea, sweepLine)} :
          /\ waypoints' = waypoints \o
                SweepEdges(searchArea, sweepLine, hits,
                           getWidth(searchArea)[2], sweepJ)
          /\ pc' = IF hits = {} THEN "clearance" ELSE "sweep"
    /\ sweepLine' = Shifted(sweepLine, Offset(getWidth(searchArea)[2], OFFSET))
    /\ sweepJ' = sweepJ + 1
    /\ UNCHANGED <<tourVars, intAbs, field, searchArea, decompVars, geoVars, outFile, pitch, radius, boundary,
                   path, calls>>

\* traverse, 659-691: the clearance of the last edge
TraverseClearance ==
    /\ pc = "clearance"
    /\ waypoints' = Cleared(searchArea, getWidth(searchArea)[2], waypoints)
    /\ pc' = "traversed"
    /\ UNCHANGED <<tourVars, intAbs, field, searchArea, decompVars, geoVars, outFile, pitch, radius, sweepLine,
                   sweepJ, boundary, path, calls>>

InitTrav ==
    /\ intAbs \in BOOLEAN
    /\ field = TravPoints
    /\ pc = "read"
    /\ searchArea = << >>
    /\ pending = << >>
    /\ subregions = << >>
    /\ lastSplit = << >>
    /\ merges = << >>
    /\ passes = 0
    /\ firstPass = << >>
    /\ pitch = Pitch
    /\ radius = ConfigRadius
    /\ sweepLine = << >>
    /\ sweepJ = 0
    /\ waypoints = << >>
    /\ boundary = << >>
    /\ path = << >>
    /\ calls = << >>
    /\ unit = "main.cpp"
    /\ global = FreshGlobal
    /\ local = << >>
    /\ outFile = 0
    /\ TourIdle

NextTrav ==
    \/ \E pt \in TravPoints : ReadConvexVertex(pt)
    \/ Canonicalise
    \/ DecomposeConvex
    \/ \E crashOnUse \in BOOLEAN : MergeSubregions(crashOnUse)
    \/ TraverseBegin
    \/ SweepStep
    \/ TraverseClearance

SpecTrav == InitTrav /\ [][NextTrav]_vars

\* The grid of the radius 10 scenario
SquarePoints == (0..SquareSide) \X (0..SquareSide)

\* The program built with RADIUS 10, reading a convex search polygon
InitSquare ==
    /\ intAbs \in BOOLEAN
    /\ field = SquarePoints
    /\ pc = "read"
    /\ searchArea = << >>
    /\ pending = << >>
    /\ subregions = << >>
    /\ lastSplit = << >>
    /\ merges = << >>
    /\ passes = 0
    /\ firstPass = << >>
    /\ pitch = SquarePitch
    /\ radius = TenRadius
    /\ sweepLine = << >>
    /\ sweepJ = 0
    /\ waypoints = << >>
    /\ boundary = << >>
    /\ path = << >>
    /\ calls = << >>
    /\ unit = "main.cpp"
    /\ global = FreshGlobal
    /\ local = << >>
    /\ outFile = 0
    /\ TourIdle

SpecSquare == InitSquare /\ [][NextTrav]_vars

\* ------------------------------------------------------- pathTo (919-958)
\* Variant of BoundaryHits whose scan steps over every second edge.
BoundaryHitsEven(seg) ==
    {i \in 0..(Len(boundary) - 1) :
        i % 2 = 0 /\ intersection(seg, MetreEdge(boundary, i), 0) # << >>}

\* The edges of the boundary the line from seg[1] to seg[2] meets
BoundaryHits(seg) ==
    {i \in 0..(Len(boundary) - 1) :
        intersection(seg, MetreEdge(boundary, i), 0) # << >>}

\* Comp: the intersection with edge a is nearer to point1 than that with edge
\* b.  The intersection is point1 + r * t, at distance |r| * t.
Nearer(seg, a, b) ==
    RLess(InterT(seg, MetreEdge(boundary, a)),
          InterT(seg, MetreEdge(boundary, b)))

\* Edge a comes before edge b after std::sort: equal distances keep the order
\* of the scan (the sort of fewer than 16 elements is an insertion sort)
SortsBefore(seg, a, b) ==
    \/ Nearer(seg, a, b)
    \/ ~Nearer(seg, b, a) /\ a < b

\* The edge at position r (from 0) of the sorted intersections
HitOfRank(seg, hits, r) ==
    CHOOSE i \in hits :
        Cardinality({k \in hits : SortsBefore(seg, k, i)}) = r

\* The intersection with edge i moved by RADIUS along the normal of the edge
OffsetHit(seg, i) ==
    PAdd(intersection(seg, MetreEdge(boundary, i), 0)[1],
         Offset(PolyEdge(boundary, i), RADIUS))

\* The points pathToHelp inserts before point2
Inserted(seg, hits) ==
    [k \in 1..Cardinality(hits) |-> OffsetHit(seg, HitOfRank(seg, hits, k - 1))]

\* The points of the refined grid on no line of the grid
QueryPoints ==
    {q \in (0..(QueryScale * BoundX)) \X (0..(QueryScale * BoundY)) :
        q[1] % 2 = 1 /\ q[2] % 2 = 1}

\* A vertex of the boundary in the refined grid
Refined(v) == <<QueryScale * v[1], QueryScale * v[2]>>

\* A point of the refined grid in metres
QueryMetres(q) == <<Rat(pitch * q[1], QueryScale), Rat(pitch * q[2], QueryScale)>>

\* The point q of the refined grid is in the interior of polygon p
Interior(q, p) ==
    /\ \A i \in 0..(Len(p) - 1) :
          ~(/\ Cross(Sub(Refined(V(p, i + 1)), Refined(V(p, i))),
                     Sub(q, Refined(V(p, i)))) = 0
            /\ InBox(Refined(V(p, i)), Refined(V(p, i + 1)), q))
    /\ Cardinality({i \in 0..(Len(p) - 1) :
          /\ Refined(V(p, i))[2] <= q[2]
          /\ q[2] < Refined(V(p, i + 1))[2]
          /\ Cross(Sub(Refined(V(p, i + 1)), Refined(V(p, i))),
                   Sub(q, Refined(V(p, i)))) > 0})
       # Cardinality({i \in 0..(Len(p) - 1) :
          /\ Refined(V(p, i + 1))[2] <= q[2]
          /\ q[2] < Refined(V(p, i))[2]
          /\ Cross(Sub(Refined(V(p, i + 1)), Refined(V(p, i))),
                   Sub(q, Refined(V(p, i)))) < 0})

\* The coordinates of the points of l have denominators of at most MaxDen
Small(l) ==
    \A k \in 1..Len(l) : l[k][1][2] <= MaxDen /\ l[k][2][2] <= MaxDen

SmallPath == Small(path)

\* The position of the it of the innermost running call
TopIt == calls[Len(calls)]

\* The line from *it to *std::next(it) of the innermost running call
TopLine == <<path[TopIt], path[TopIt + 1]>>

\* main, 107-117: the next point of a rectilinear boundary
ReadBoundaryVertex(pt) ==
    /\ pc = "bounds"
    /\ Len(boundary) < MaxBoundVerts
    /\ pt \in BoundPoints
    /\ CanAppend(boundary, pt)
    /\ boundary # << >> =>
          /\ \/ pt[1] = boundary[Len(boundary)][1]
             \/ pt[2] = boundary[Len(boundary)][2]
          /\ \/ pt[1] > boundary[1][1]
             \/ pt[1] = boundary[1][1] /\ pt[2] > boundary[1][2]
    /\ boundary' = Append(boundary, pt)
    /\ UNCHANGED <<tourVars, intAbs, field, pc, searchArea, decompVars, geoVars, outFile, pitch, radius,
                   sweepLine, sweepJ, waypoints, path, calls>>

\* main, 118-119: reverse a clockwise boundary
CloseBoundary ==
    /\ pc = "bounds"
    /\ CanClose(boundary)
    /\ \/ boundary[1][1] = boundary[Len(boundary)][1]
       \/ boundary[1][2] = boundary[Len(boundary)][2]
    /\ boundary' = IF clockwise(boundary) THEN Reverse(boundary) ELSE boundary
    /\ pc' = "mission"
    /\ UNCHANGED <<tourVars, intAbs, field, searchArea, decompVars, geoVars, outFile, pitch, radius, sweepLine,
                   sweepJ, waypoints, path, calls>>

\* main, 144, pathTo, 949-954, and the call of pathToHelp it makes, up to the
\* for loop: a is the last mission point, b the front of the search path
PathToBegin(a, b) ==
    /\ pc = "mission"
    /\ a # b
    /\ Interior(a, boundary)
    /\ Interior(b, boundary)
    /\ \E hits \in {BoundaryHits(<<QueryMetres(a), QueryMetres(b)>>)} :
          /\ 2 + Cardinality(hits) <= MaxPath
          /\ path' = <<QueryMetres(a)>>
                     \o Inserted(<<QueryMetres(a), QueryMetres(b)>>, hits)
                     \o <<QueryMetres(b)>>
          /\ calls' = IF hits = {} THEN << >> ELSE <<1>>
          /\ pc' = IF hits = {} THEN "routed" ELSE "unfold"
    /\ UNCHANGED <<tourVars, intAbs, field, searchArea, decompVars, geoVars, outFile, pitch, radius, sweepLine,
                   sweepJ, waypoints, boundary>>

\* pathToHelp, 919-930, called from the for loop of the innermost running
\* call: no intersection, it returns and the loop moves on
HelpClean ==
    /\ pc = "unfold"
    /\ SmallPath
    /\ TopIt < Len(path)
    /\ BoundaryHits(TopLine) = {}
    /\ calls' = [calls EXCEPT ![Len(calls)] = @ + 1]
    /\ UNCHANGED <<tourVars, intAbs, field, pc, searchArea, decompVars, geoVars, outFile, pitch, radius,
                   sweepLine, sweepJ, waypoints, boundary, path>>

\* pathToHelp, 919-942, called from the for loop of the innermost running
\* call: the offset intersections are inserted before point2 and the call
\* starts its own for loop at path.begin()
HelpInsert ==
    /\ pc = "unfold"
    /\ SmallPath
    /\ TopIt < Len(path)
    /\ \E hits \in {BoundaryHits(TopLine)} :
          /\ hits # {}
          /\ Len(path) + Cardinality(hits) <= MaxPath
          /\ path' = SubSeq(path, 1, TopIt) \o Inserted(TopLine, hits)
                     \o SubSeq(path, TopIt + 1, Len(path))
          /\ calls' = Append([k \in DOMAIN calls |->
                                 IF calls[k] > TopIt
                                 THEN calls[k] + Cardinality(hits)
                                 ELSE calls[k]], 1)
    /\ UNCHANGED <<tourVars, intAbs, field, pc, searchArea, decompVars, geoVars, outFile, pitch, radius,
                   sweepLine, sweepJ, waypoints, boundary>>

\* pathToHelp, 943-944: the for loop of the innermost running call ends and
\* the call returns, to the loop of its caller or to pathTo
HelpReturn ==
    /\ pc = "unfold"
    /\ TopIt >= Len(path)
    /\ calls' = IF Len(calls) = 1 THEN << >>
                ELSE [SubSeq(calls, 1, Len(calls) - 1)
                         EXCEPT ![Len(calls) - 1] = @ + 1]
    /\ pc' = IF Len(calls) = 1 THEN "routed" ELSE "unfold"
    /\ UNCHANGED <<tourVars, intAbs, field, searchArea, decompVars, geoVars, outFile, pitch, radius, sweepLine,
                   sweepJ, waypoints, boundary, path>>

InitPath ==
    /\ intAbs \in BOOLEAN
    /\ field = BoundPoints
    /\ pc = "bounds"
    /\ searchArea = << >>
    /\ pending = << >>
    /\ subregions = << >>
    /\ lastSplit = << >>
    /\ merges = << >>
    /\ passes = 0
    /\ firstPass = << >>
    /\ pitch = BoundPitch
    /\ radius = ConfigRadius
    /\ sweepLine = << >>
    /\ sweepJ = 0
    /\ waypoints = << >>
    /\ boundary = << >>
    /\ path = << >>
    /\ calls = << >>
    /\ unit = "main.cpp"
    /\ global = FreshGlobal
    /\ local = << >>
    /\ outFile = 0
    /\ TourIdle

NextPath ==
    \/ \E pt \in BoundPoints : ReadBoundaryVertex(pt)
    \/ CloseBoundary
    \/ \E a, b \in QueryPoints : PathToBegin(a, b)
    \/ HelpClean
    \/ HelpInsert
    \/ HelpReturn

SpecPath == InitPath /\ [][NextPath]_vars

\* ------------------------------------------------- the conversions in use
\* main, 87-89, and init of Conversions.cpp: the reference point is set.
\* main sets it once; a caller of Conversions.cpp may call init again, up to
\* MaxInits times here.
SetReference(longitude, latitude) ==
    /\ \/ pc = "fresh"
       \/ /\ pc \in {"based", "converted", "returned"}
          /\ unit = "Conversions.cpp"
          /\ Len(global.ourX) < 3 * MaxInits
    /\ global' = init(global, longitude, latitude)
    /\ pc' = "anchored"
    /\ UNCHANGED <<tourVars, intAbs, field, searchArea, decompVars, routeVars, outFile, unit,
                   local>>

\* main, 90, and computeBasis of Conversions.cpp
ComputeBasis ==
    /\ pc = "anchored"
    /\ global' = computeBasis(global)
    /\ pc' = "based"
    /\ UNCHANGED <<tourVars, intAbs, field, searchArea, decompVars, routeVars, outFile, unit,
                   local>>

\* The Coord of a GPS point by the GPStoCoord of the unit in use
UnitGPStoCoord(longitude, latitude) ==
    IF unit = "main.cpp" THEN MainGPStoCoord(global, longitude, latitude)
    ELSE GPStoCoord(global, longitude, latitude)

\* GPStoCoord is called on the point at dLong, dLat from the reference point
ToCoord(dLong, dLat) ==
    /\ pc \in {"based", "converted", "returned"}
    /\ SmallBasis(global)
    /\ dLong = NoTurn \/ dLat = NoTurn
    /\ TurnBy(global.REF_LAT, dLat)[1][1] >= 0
    /\ \E longitude \in {TurnBy(global.REF_LONG, dLong)} :
       \E latitude \in {TurnBy(global.REF_LAT, dLat)} :
          local' = [longitude |-> longitude, latitude |-> latitude,
                    coord |-> UnitGPStoCoord(longitude, latitude)]
    /\ pc' = "converted"
    /\ UNCHANGED <<tourVars, intAbs, field, searchArea, decompVars, routeVars, outFile, unit,
                   global>>

\* CoordtoGPS is called on the Coord that GPStoCoord returned
ToGPS ==
    /\ pc = "converted"
    /\ local' = [longitude |-> local.longitude, latitude |-> local.latitude,
                 coord |-> local.coord, gps |-> CoordtoGPS(global, local.coord)]
    /\ pc' = "returned"
    /\ UNCHANGED <<tourVars, intAbs, field, searchArea, decompVars, routeVars, outFile, unit,
                   global>>

InitGeo ==
    /\ intAbs = FALSE
    /\ field = {}
    /\ pc = "fresh"
    /\ searchArea = << >>
    /\ pending = << >>
    /\ subregions = << >>
    /\ lastSplit = << >>
    /\ merges = << >>
    /\ passes = 0
    /\ firstPass = << >>
    /\ pitch = 1
    /\ radius = ConfigRadius
    /\ sweepLine = << >>
    /\ sweepJ = 0
    /\ waypoints = << >>
    /\ boundary = << >>
    /\ path = << >>
    /\ calls = << >>
    /\ unit \in {"main.cpp", "Conversions.cpp"}
    /\ global = FreshGlobal
    /\ local = << >>
    /\ outFile = 0
    /\ TourIdle

NextGeo ==
    \/ \E longitude \in RefLongitudes : \E latitude \in RefLatitudes :
          SetReference(longitude, latitude)
    \/ ComputeBasis
    \/ \E dLong, dLat \in NearTurns : ToCoord(dLong, dLat)
    \/ ToGPS

SpecGeo == InitGeo /\ [][NextGeo]_vars

\* ---------------------------------------- searchPath, the tour (815-894)
\* traverse, 589-658: the waypoints of the do loop from sweep line `line` on
RECURSIVE Sweeps(_, _, _, _)
Sweeps(p, line, jj, w) ==
    IF SweepHits(p, line) = {} THEN w
    ELSE Sweeps(p, Shifted(line, Offset(getWidth(p)[2], OFFSET)), jj + 1,
                w \o SweepEdges(p, line, SweepHits(p, line), getWidth(p)[2],
                                jj))

\* traverse(p, waypoints) for a convex polygon p: the waypoints
traverse(p) ==
    Cleared(p, getWidth(p)[2],
            Sweeps(p, Shifted(<<Metres(getWidth(p)[2][1]),
                                Metres(getWidth(p)[2][2])>>,
                              Offset(getWidth(p)[2], OFFSET)), 0, << >>))

GreatestIn(S) == CHOOSE a \in S : \A b \in S : a >= b

\* Polygon::center(), 198-215, doubled and in grid units: the sums of the
\* least and the greatest x and y
CenterTwice(p) ==
    <<LeastIn({p[k][1] : k \in 1..Len(p)})
          + GreatestIn({p[k][1] : k \in 1..Len(p)}),
      LeastIn({p[k][2] : k \in 1..Len(p)})
          + GreatestIn({p[k][2] : k \in 1..Len(p)})>>

\* Polygon::center() in metres
center(p) ==
    <<Rat(pitch * CenterTwice(p)[1], 2), Rat(pitch * CenterTwice(p)[2], 2)>>

\* distance(p.center(), q.center()) in weight units, 2 * TourScale to the
\* metre, rounded down
CenterDistance(p, q) ==
    ISqrt(pitch * pitch * TourScale * TourScale
            * Dot(Sub(CenterTwice(p), CenterTwice(q)),
                  Sub(CenterTwice(p), CenterTwice(q))))

\* INF in weight units
InfWeight == INF * 2 * TourScale

\* Node(poly): the node of a subregion, before its traversal
Node(poly) == [p |-> poly, path |-> << >>, startState |-> "START_V1"]

\* Graph<Node, float_type> g(n): n default nodes, no edge, weights 0
Graph(n) ==
    [v |-> [k \in 1..n |-> Node(<< >>)],
     e |-> [ij \in (1..n) \X (1..n) |-> FALSE],
     w |-> [ij \in (1..n) \X (1..n) |-> 0]]

\* searchPath, 836-850: the nodes point to the subregions and hold their
\* traversals
WithNodes(gr, l) ==
    [gr EXCEPT !.v = [k \in 1..Len(l) |->
                         [p |-> l[k], path |-> traverse(l[k]),
                          startState |-> "START_V1"]]]

\* computeGraph, 694-716: nodes whose polygons share an edge are joined and
\* weigh the distance of their centres, the others INF more
computeGraph(gr) ==
    [gr EXCEPT
        !.e = [ij \in DOMAIN gr.e |->
                  adjacent(gr.v[ij[1]].p, gr.v[ij[2]].p) # <<-1, -1>>],
        !.w = [ij \in DOMAIN gr.w |->
                  IF adjacent(gr.v[ij[1]].p, gr.v[ij[2]].p) # <<-1, -1>>
                  THEN CenterDistance(gr.v[ij[1]].p, gr.v[ij[2]].p)
                  ELSE InfWeight
                         + CenterDistance(gr.v[ij[1]].p, gr.v[ij[2]].p)]]

\* The traversal of every subregion can be computed exactly
Traversable(l) ==
    \A k \in 1..Len(l) :
        /\ ConcaveVerts(l[k]) = {}
        /\ RationalDirection(getWidth(l[k])[2])

\* searchPath, 822-851: the search polygon has a concave vertex; the graph
\* is built over the subregions, each is traversed, and computeGraph fills
\* in the edges and the weights
BuildGraph ==
    /\ pc = "merged"
    /\ passes = 1
    /\ ConcaveVerts(searchArea) # {}
    /\ Len(subregions) >= 2
    /\ Traversable(subregions)
    /\ graph' = computeGraph(WithNodes(Graph(Len(subregions)), subregions))
    /\ pc' = "minTraversal"
    /\ UNCHANGED <<intAbs, field, searchArea, decompVars, routeVars, geoVars,
                   outFile, verts, bestPath, minDistance, travOrder>>

\* traversalLength(g, path), 718-732: the sum of the weights along path, a
\* list of node indices counted from 0
RECURSIVE traversalLength(_, _)
traversalLength(gr, l) ==
    IF Len(l) < 2 THEN 0
    ELSE gr.w[<<l[1] + 1, l[2] + 1>>] + traversalLength(gr, Tail(l))

\* std::next_permutation(verts.begin(), verts.end()) returns true
HasNext(s) == \E k \in 1..(Len(s) - 1) : s[k] < s[k + 1]

\* The list s with its elements after position k in reverse order
ReverseFrom(s, k) ==
    [i \in 1..Len(s) |-> IF i <= k THEN s[i] ELSE s[Len(s) + k + 1 - i]]

\* Variant of NextPermutation that goes to the last permutation at once.
NextPermutationLast(s) == Reverse(s)

\* The list s after std::next_permutation: the last ascent s[k] < s[k + 1]
\* is found, s[k] is exchanged with the last element greater than it and the
\* rest is reversed; without an ascent the whole list is reversed
NextPermutation(s) ==
    IF ~HasNext(s) THEN Reverse(s)
    ELSE CHOOSE r \in
            {ReverseFrom([s EXCEPT ![k] = s[l], ![l] = s[k]], k) :
                <<k, l>> \in
                    {kl \in (1..Len(s)) \X (1..Len(s)) :
                        /\ kl[1] = GreatestIn({i \in 1..(Len(s) - 1) :
                                                  s[i] < s[i + 1]})
                        /\ kl[2] = GreatestIn({i \in 1..Len(s) :
                                                  s[i] > s[kl[1]]})}} : TRUE

\* minTraversal, 734-741: verts is 0, 1, ..., n - 1
MinTraversalBegin ==
    /\ pc = "minTraversal"
    /\ verts' = [k \in 1..Len(graph.v) |-> k - 1]
    /\ bestPath' = << >>
    /\ minDistance' = -1
    /\ pc' = "permute"
    /\ UNCHANGED <<intAbs, field, searchArea, decompVars, routeVars, geoVars,
                   outFile, graph, travOrder>>

\* minTraversal, 742-751: one iteration of the do loop; when
\* next_permutation returns false, bestPath is returned into travOrder
MinTraversalStep ==
    /\ pc = "permute"
    /\ \E currDistance \in {traversalLength(graph, verts)} :
          \E better \in {currDistance < minDistance \/ minDistance = -1} :
              /\ bestPath' = IF better THEN verts ELSE bestPath
              /\ minDistance' = IF better THEN currDistance ELSE minDistance
    /\ verts' = NextPermutation(verts)
    /\ pc' = IF HasNext(verts) THEN "permute" ELSE "computeStates"
    /\ travOrder' = IF HasNext(verts) THEN travOrder ELSE bestPath'
    /\ UNCHANGED <<intAbs, field, searchArea, decompVars, routeVars, geoVars,
                   outFile, graph>>

\* ----------------------------------------------- computeStates (754-813)
\* distance(a, b) squared, for two points in metres
Distance2(a, b) ==
    RAdd(RMul(RSub(b[1], a[1]), RSub(b[1], a[1])),
         RMul(RSub(b[2], a[2]), RSub(b[2], a[2])))

\* path.front() and path.back() of a node; on an empty list both are the
\* list's own header read as an Edge, whatever the memory holds: junk
PathFront(nd, junk) == IF nd.path = << >> THEN junk ELSE nd.path[1]

PathBack(nd, junk) == IF nd.path = << >> THEN junk ELSE nd.path[Len(nd.path)]

\* What the header of an empty list may read as
JunkEdges ==
    {<<<<RInt(0), RInt(0)>>, <<RInt(0), RInt(0)>>>>,
     <<<<RInt(JunkFar), RInt(0)>>, <<RInt(0), RInt(JunkFar)>>>>}

\* Variant of NearerOf that takes the candidate when it is farther.
FartherOf(best, cand, target) ==
    IF RLess(Distance2(best[2], target), Distance2(cand[2], target))
    THEN cand ELSE best

\* One comparison of computeStates: the candidate <<state, corner>> replaces
\* the best so far when its corner is nearer to the target
NearerOf(best, cand, target) ==
    IF RLess(Distance2(cand[2], target), Distance2(best[2], target))
    THEN cand ELSE best

\* 758-775: the start state of the first node, by the distance of its exit
\* corners from the centre of the second node's polygon
FirstState(nd, junk, target) ==
    NearerOf(NearerOf(NearerOf(<<"START_V1", PathBack(nd, junk)[2]>>,
                         <<"START_V2", PathBack(nd, junk)[1]>>, target),
                  <<"END_V1", PathFront(nd, junk)[2]>>, target),
           <<"END_V2", PathFront(nd, junk)[1]>>, target)[1]

\* Variant of Joint with the joints of START_V1 and START_V2 exchanged.
JointSwapped(nd, junk, state) ==
    CASE state = "START_V1" -> PathBack(nd, junk)[1]
      [] state = "START_V2" -> PathBack(nd, junk)[2]
      [] state = "END_V1" -> PathFront(nd, junk)[2]
      [] state = "END_V2" -> PathFront(nd, junk)[1]

\* 778-795: the joint of a node, by its start state
Joint(nd, junk, state) ==
    CASE state = "START_V1" -> PathBack(nd, junk)[2]
      [] state = "START_V2" -> PathBack(nd, junk)[1]
      [] state = "END_V1" -> PathFront(nd, junk)[2]
      [] state = "END_V2" -> PathFront(nd, junk)[1]

\* 797-811: the start state of the next node, by the distance of its entry
\* corners from the joint
NextState(nd, junk, joint) ==
    NearerOf(NearerOf(NearerOf(<<"START_V1", PathFront(nd, junk)[1]>>,
                         <<"START_V2", PathFront(nd, junk)[2]>>, joint),
                  <<"END_V1", PathBack(nd, junk)[1]>>, joint),
           <<"END_V2", PathBack(nd, junk)[2]>>, joint)[1]

\* The start states computeStates assigns along the tour, by position
StatesAlong(tour, gr, junk) ==
    LET st[k \in 1..Len(tour)] ==
            IF k = 1
            THEN FirstState(gr.v[tour[1] + 1], junk[tour[1] + 1],
                            center(gr.v[tour[2] + 1].p))
            ELSE NextState(gr.v[tour[k] + 1], junk[tour[k] + 1],
                           Joint(gr.v[tour[k - 1] + 1], junk[tour[k - 1] + 1],
                                 st[k - 1]))
    IN  st

\* The position of node i (counted from 0) in the tour
PositionOf(tour, i) == CHOOSE k \in 1..Len(tour) : tour[k] = i

\* computeStates(path, g): the graph with the start states set
computeStates(tour, gr, junk) ==
    [gr EXCEPT !.v = [i \in 1..Len(gr.v) |->
        [gr.v[i] EXCEPT !.startState =
            StatesAlong(tour, gr, junk)[PositionOf(tour, i - 1)]]]]

ComputeStates ==
    /\ pc = "computeStates"
    /\ \E junk \in [1..Len(graph.v) -> JunkEdges] :
          graph' = computeStates(travOrder, graph, junk)
    /\ pc' = "write"
    /\ UNCHANGED <<intAbs, field, searchArea, decompVars, routeVars, geoVars,
                   outFile, verts, bestPath, minDistance, travOrder>>

\* ------------------------------------------------- searchPath (853-893)
\* The waypoints of edge e, v1 first or v2 first
Ends(e, reversed) == IF reversed THEN <<e[2], e[1]>> ELSE <<e[1], e[2]>>

RECURSIVE Flat(_, _)
Flat(l, reversed) ==
    IF l = << >> THEN << >>
    ELSE Ends(Head(l), reversed) \o Flat(Tail(l), reversed)

\* The waypoints written for a node, by its start state
Written(nd) ==
    CASE nd.startState = "START_V1" -> Flat(nd.path, FALSE)
      [] nd.startState = "START_V2" -> Flat(nd.path, TRUE)
      [] nd.startState = "END_V1" -> Flat(Reverse(nd.path), FALSE)
      [] nd.startState = "END_V2" -> Flat(Reverse(nd.path), TRUE)

RECURSIVE WrittenAlong(_, _)
WrittenAlong(tour, gr) ==
    IF tour = << >> THEN << >>
    ELSE Written(gr.v[Head(tour) + 1]) \o WrittenAlong(Tail(tour), gr)

\* searchPath, 853-893: the paths of the nodes are written out in the order
\* of the tour
WritePath ==
    /\ pc = "write"
    /\ path' = WrittenAlong(travOrder, graph)
    /\ pc' = "routed"
    /\ UNCHANGED <<intAbs, field, searchArea, decompVars, geoVars, outFile,
                   pitch, radius, sweepLine, sweepJ, waypoints, boundary,
                   calls, tourVars>>

\* main, 92-102: the next point of a search polygon of at most MaxTourVerts
\* vertices
ReadTourVertex(pt) ==
    /\ pc = "read"
    /\ Len(searchArea) < MaxTourVerts
    /\ pt \in field
    /\ CanAppend(searchArea, pt)
    /\ searchArea' = Append(searchArea, pt)
    /\ UNCHANGED <<intAbs, field, pc, decompVars, routeVars, geoVars, outFile,
                   tourVars>>

\* main reads the search polygon from the wider grid, NarrowPitch or
\* TourPitch metres to the unit
InitTour ==
    /\ intAbs \in BOOLEAN
    /\ field = WidePoints
    /\ pc = "read"
    /\ searchArea = << <<0, 0>> >>
    /\ pending = << >>
    /\ subregions = << >>
    /\ lastSplit = << >>
    /\ merges = << >>
    /\ passes = 0
    /\ firstPass = << >>
    /\ pitch \in {NarrowPitch, TourPitch}
    /\ radius = ConfigRadius
    /\ sweepLine = << >>
    /\ sweepJ = 0
    /\ waypoints = << >>
    /\ boundary = << >>
    /\ path = << >>
    /\ calls = << >>
    /\ unit = "main.cpp"
    /\ global = FreshGlobal
    /\ local = << >>
    /\ outFile = 0
    /\ TourIdle

NextTour ==
    \/ \E pt \in WidePoints : ReadTourVertex(pt)
    \/ Canonicalise
    \/ DecomposeConvex
    \/ DecomposeSplit
    \/ DecomposeSpin
    \/ \E crashOnUse \in BOOLEAN : MergeSubregions(crashOnUse)
    \/ BuildGraph
    \/ MinTraversalBegin
    \/ MinTraversalStep
    \/ ComputeStates
    \/ WritePath

SpecTour == InitTour /\ [][NextTour]_vars

\* ------------------------------------------------------------- properties
\* Point sets are compared on sample points, SampleScale to the unit, in
\* coordinates scaled by SampleScale.
Scaled(pt) == <<SampleScale * pt[1], SampleScale * pt[2]>>

SamplePoints ==
    {<<x, y>> : x \in 0..(SampleScale * Max2(GridX, WideX)),
                y \in 0..(SampleScale * Max2(GridY, WideY))}

\* s lies on the closed segment from a to b
OnSegment(s, a, b) == Cross(Sub(b, a), Sub(s, a)) = 0 /\ InBox(a, b, s)

\* s lies on a segment between two vertices of p: on an edge of p or on a
\* chord a split of p can cut along
OnChord(s, p) ==
    \E i, j \in 1..Len(p) : i < j /\ OnSegment(s, Scaled(p[i]), Scaled(p[j]))

\* The winding number of polygon p around s
Winding(s, p) ==
    Cardinality({i \in 0..(Len(p) - 1) :
        /\ Scaled(V(p, i))[2] <= s[2]
        /\ s[2] < Scaled(V(p, i + 1))[2]
        /\ Cross(Sub(Scaled(V(p, i + 1)), Scaled(V(p, i))),
                 Sub(s, Scaled(V(p, i)))) > 0})
    - Cardinality({i \in 0..(Len(p) - 1) :
        /\ Scaled(V(p, i + 1))[2] <= s[2]
        /\ s[2] < Scaled(V(p, i))[2]
        /\ Cross(Sub(Scaled(V(p, i + 1)), Scaled(V(p, i))),
                 Sub(s, Scaled(V(p, i)))) < 0})

Inside(s, p) == Winding(s, p) # 0

RECURSIVE SumArea2(_, _)
SumArea2(l, i) == IF i > Len(l) THEN 0 ELSE Area2(l[i]) + SumArea2(l, i + 1)

\* The polygons of l partition P: the signed areas add up, and a sample point
\* off every chord is in exactly one polygon of l when it is in P, in none
\* when it is not.
Partitions(l, P) ==
    /\ SumArea2(l, 1) = Area2(P)
    /\ \A s \in SamplePoints :
          ~OnChord(s, P) =>
              Cardinality({i \in 1..Len(l) : Inside(s, l[i])})
                  = (IF Inside(s, P) THEN 1 ELSE 0)

\* decompose has returned
Decomposed == pc = "decompose" /\ pending = << >>

\* C1: after decompose followed by mergeSubregions, no polygon of the
\* subregion list has a vertex for which isConcave returns true.
C1_Convexity ==
    pc = "merged" =>
        \A k \in 1..Len(subregions) :
            \A i \in 0..(Len(subregions[k]) - 1) : ~isConcave(subregions[k], i)

\* mergeSubregions has returned a list of three or more subregions of a
\* concave search polygon.
C1_Witness ==
    /\ pc = "merged"
    /\ Len(subregions) >= 3
    /\ ConcaveVerts(searchArea) # {}

\* C2: the subregions decompose produces, and those mergeSubregions keeps,
\* partition the search polygon: pairwise disjoint interiors whose union is
\* the interior of the polygon, and signed areas that sum to its signed area.
C2_Partition ==
    (Decomposed \/ pc = "merged") => Partitions(subregions, searchArea)

\* mergeSubregions has merged two subregions and returned two or more.
C2_Witness ==
    /\ pc = "merged"
    /\ merges # << >>
    /\ Len(subregions) >= 2

C8_AllCCW ==
    /\ lastSplit # << >> => Area2(lastSplit[4]) > 0 /\ Area2(lastSplit[5]) > 0
    /\ \A k \in 1..Len(merges) : Area2(merges[k]) > 0

\* decompose is at a polygon with a concave vertex for which no chord passes
\* the validity test even with convex targets accepted
NoValidChord ==
    /\ pc = "decompose"
    /\ pending # << >>
    /\ ConcaveVerts(Head(pending)) # {}
    /\ Candidates(Head(pending), TRUE) = {}

\* C9: when no candidate chord passes the validity test even with convex
\* targets accepted, decompose stops and reports a GeometryError: it does not
\* keep searching.
C9_GeometryError == [][NoValidChord => pc' = "error"]_vars

\* The true distance in metres from the line of e to v, as a distance pair
LineDist(v, e) ==
    <<pitch * Abs(Cross(Sub(e[2], e[1]), Sub(v, e[1]))),
      Dot(Sub(e[2], e[1]), Sub(e[2], e[1]))>>

\* The distance from the line of edge i to v is the greatest distance to any
\* vertex of p not on edge i
MaxOverVerts(p, i, d) ==
    /\ \E j \in 2..(Len(p) - 1) : ~DistLT(LineDist(V(p, i + j), PolyEdge(p, i)), d)
                                  /\ ~DistLT(d, LineDist(V(p, i + j), PolyEdge(p, i)))
    /\ \A j \in 2..(Len(p) - 1) : ~DistLT(d, LineDist(V(p, i + j), PolyEdge(p, i)))

\* The span <<v, e>> is the width of p: e is the edge of lowest index for
\* which the greatest distance to a vertex is least, and v is at that distance
IsWidth(p, v, e) ==
    \E i \in 0..(Len(p) - 1) :
        /\ e = PolyEdge(p, i)
        /\ MaxOverVerts(p, i, LineDist(v, e))
        /\ \A k \in 0..(Len(p) - 1), j \in 2..(Len(p) - 1) :
              MaxOverVerts(p, k, LineDist(V(p, k + j), PolyEdge(p, k))) =>
                  IF k < i
                  THEN DistLT(LineDist(v, e),
                              LineDist(V(p, k + j), PolyEdge(p, k)))
                  ELSE ~DistLT(LineDist(V(p, k + j), PolyEdge(p, k)),
                               LineDist(v, e))

\* C10: for every convex polygon, the length of the span getWidth returns is
\* the minimum over the edges of the maximum perpendicular distance from the
\* edge's line to a vertex not on the edge, at the edge of lowest index among
\* those attaining the minimum.
C10_Width ==
    \A k \in 1..Len(subregions) :
        /\ IsWidth(subregions[k], getWidth(subregions[k])[1],
                   getWidth(subregions[k])[2])
        /\ ~DistLT(SpanDist(getWidth(subregions[k])),
                   LineDist(getWidth(subregions[k])[1],
                            getWidth(subregions[k])[2]))
        /\ ~DistLT(LineDist(getWidth(subregions[k])[1],
                            getWidth(subregions[k])[2]),
                   SpanDist(getWidth(subregions[k])))

\* The coordinate of the point v along the width edge of the search polygon
AlongSweep(v) ==
    RAdd(RMul(v[1], RInt(getWidth(searchArea)[2][2][1]
                         - getWidth(searchArea)[2][1][1])),
         RMul(v[2], RInt(getWidth(searchArea)[2][2][2]
                         - getWidth(searchArea)[2][1][2])))

\* The waypoint edge s starts at its end farther along the width edge
StartsFar(s) == RLess(AlongSweep(s[2]), AlongSweep(s[1]))

\* C5: in the list traverse returns, v2 of each edge and v1 of the next are on
\* the same side of the polygon: consecutive edges run in opposite directions
\* along the sweep line.
C5_ZigZag ==
    pc = "traversed" =>
        \A k \in 1..(Len(waypoints) - 1) :
            StartsFar(waypoints[k]) # StartsFar(waypoints[k + 1])

\* The vector from v1 to v2 of the waypoint edge s
SegDir(s) == PSub(s[2], s[1])

\* An integer vector along the rational vector u
IntDir(u) ==
    <<u[1][1] * (u[2][2] \div GCD(u[1][2], u[2][2])),
      u[2][1] * (u[1][2] \div GCD(u[1][2], u[2][2]))>>

\* The shortest integer vector along the integer vector w
Reduced(w) ==
    <<w[1] \div GCD(Abs(w[1]), Abs(w[2])), w[2] \div GCD(Abs(w[1]), Abs(w[2]))>>

\* c * c = |w|^2, for the rational c
SquareIs(c, w) ==
    /\ c[2] = 1
    /\ Abs(c[1]) <= Abs(w[1]) + Abs(w[2])
    /\ c[1] * c[1] = Dot(w, w)

\* The point b is at distance OFFSET from the line through a along w:
\* cross(w, b - a) / |w| is OFFSET in magnitude
OffsetFrom(a, w, b) ==
    SquareIs(RDiv(RCross(<<RInt(w[1]), RInt(w[2])>>, PSub(b, a)), OFFSET), w)

\* The waypoint edges s and t lie on parallel lines OFFSET apart
OffsetApart(s, t) ==
    /\ RCross(SegDir(s), SegDir(t))[1] = 0
    /\ OffsetFrom(s[1], Reduced(IntDir(SegDir(s))), t[1])

\* C6: any two consecutive edges of the list traverse returns lie on parallel
\* lines whose perpendicular distance is exactly OFFSET.
C6_Spacing ==
    pc = "traversed" =>
        \A k \in 1..(Len(waypoints) - 1) :
            \/ SegDir(waypoints[k]) = <<RInt(0), RInt(0)>>
            \/ OffsetApart(waypoints[k], waypoints[k + 1])

\* The sign of cross(b - a, c - a)
ROrient(a, b, c) == RSign(RCross(PSub(b, a), PSub(c, a)))

\* c is in the bounding box of a and b
RInBox(a, b, c) ==
    /\ ~(RLess(c[1], a[1]) /\ RLess(c[1], b[1]))
    /\ ~(RLess(a[1], c[1]) /\ RLess(b[1], c[1]))
    /\ ~(RLess(c[2], a[2]) /\ RLess(c[2], b[2]))
    /\ ~(RLess(a[2], c[2]) /\ RLess(b[2], c[2]))

\* The closed segments ab and cd have a point in common.
RSegmentsTouch(a, b, c, d) ==
    \/ ROrient(a, b, c) # ROrient(a, b, d) /\ ROrient(c, d, a) # ROrient(c, d, b)
    \/ ROrient(a, b, c) = 0 /\ RInBox(a, b, c)
    \/ ROrient(a, b, d) = 0 /\ RInBox(a, b, d)
    \/ ROrient(c, d, a) = 0 /\ RInBox(c, d, a)
    \/ ROrient(c, d, b) = 0 /\ RInBox(c, d, b)

\* The segment from a to b has a point in common with edge i of the boundary
TouchesEdge(a, b, i) ==
    RSegmentsTouch(a, b, MetreEdge(boundary, i)[1], MetreEdge(boundary, i)[2])

Crossings(l) ==
    Cardinality({c \in (1..(Len(l) - 1)) \X (0..(Len(boundary) - 1)) :
        TouchesEdge(l[c[1]], l[c[1] + 1], c[2])})

\* C4: each recursive call of pathToHelp that inserts waypoints strictly
\* reduces the number of intersections that remain between the polyline and
\* the boundary (so that the recursion is finite and pathTo terminates).
C4_Progress ==
    [][(pc = "unfold" /\ Len(path') > Len(path) /\ Small(path')) =>
          Crossings(path') < Crossings(path)]_vars


\* The boundary has two concave vertices joined by an edge: the mouth of a C
CShaped(p) ==
    \E i \in 0..(Len(p) - 1) : isConcave(p, i) /\ isConcave(p, (i + 1) % Len(p))

\* The line from point1 to point2 that pathTo was called with
EndToEnd == <<path[1], path[Len(path)]>>

\* C11: for a C-shaped counter-clockwise boundary that the line from point1 to
\* point2 crosses at exactly two edges, pathTo returns exactly two waypoints,
\* the two crossing points moved by RADIUS along the normal of the edge
\* crossed, the nearer to point1 first.  The polyline of pathToHelp only ever
\* grows, so the result is these two waypoints exactly when the polyline is
\* point1, the two waypoints, point2 from the first insertion onwards.
C11_TwoWaypoints ==
    (/\ pc \in {"unfold", "routed"}
     /\ CShaped(boundary)
     /\ Cardinality(BoundaryHits(EndToEnd)) = 2)
        => path = <<path[1]>>
                  \o Inserted(EndToEnd, BoundaryHits(EndToEnd))
                  \o <<path[Len(path)]>>

\* The search polygon is the square (0,0), (100,0), (100,100), (0,100)
IsSquare100(p) ==
    \E n \in 1..SquareSide :
        /\ n * pitch = 100
        /\ p = << <<0, 0>>, <<n, 0>>, <<n, n>>, <<0, n>> >>

\* The edge w lies on the line y = c
OnLevel(w, c) == w[1][2] = RInt(c) /\ w[2][2] = RInt(c)

\* C12: with OFFSET = CORRECTION = RADIUS = 10, traverse on the square (0,0),
\* (100,0), (100,100), (0,100) returns exactly 9 sweep segments, on lines 10
\* apart (the k-th on y = 10 k), the first being the segment between (10,10)
\* and (90,10), the last within 10 of the side y = 100 opposite the width edge.
C12_SquareSweeps ==
    (pc = "traversed" /\ radius = TenRadius /\ IsSquare100(searchArea)) =>
        /\ Len(waypoints) = 9
        /\ \A k \in 1..Len(waypoints) : OnLevel(waypoints[k], 10 * k)
        /\ {waypoints[1][1], waypoints[1][2]}
              = {<<RInt(10), RInt(10)>>, <<RInt(90), RInt(10)>>}
        /\ ~RLess(waypoints[Len(waypoints)][1][2], RInt(90))
        /\ ~RLess(RInt(100), waypoints[Len(waypoints)][1][2])

\* traverse has returned the sweeps of the square, the tenth sweep, along the
\* side y = 100, having been pushed and then removed by the clearance test.
C12_Witness ==
    /\ pc = "traversed"
    /\ radius = TenRadius
    /\ IsSquare100(searchArea)
    /\ sweepJ > 10
    /\ Len(waypoints) = 9

\* The search polygon is the L-shape (0,0), (60,0), (60,30), (30,30), (30,60),
\* (0,60)
IsEll(p) ==
    \E n \in 1..GridX :
        /\ n * pitch = 30
        /\ p = << <<0, 0>>, <<2 * n, 0>>, <<2 * n, n>>, <<n, n>>, <<n, 2 * n>>,
                  <<0, 2 * n>> >>

\* The polygon has four vertices and a right angle at each
IsRectangle(p) ==
    /\ Len(p) = 4
    /\ \A i \in 0..3 :
          Dot(Sub(V(p, i + 1), V(p, i)), Sub(V(p, i + 2), V(p, i + 1))) = 0

\* C13: for the L-shape (0,0), (60,0), (60,30), (30,30), (30,60), (0,60),
\* decompose followed by mergeSubregions returns exactly two subregions, both
\* rectangles (one split at the concave vertex (30,30)).
C13_EllTwoRectangles ==
    (IsEll(searchArea) /\ pc \in {"merged", "crash"}) =>
        /\ pc = "merged"
        /\ Len(subregions) = 2
        /\ \A k \in 1..Len(subregions) : IsRectangle(subregions[k])

\* GPStoCoord has just been called on the reference point itself
AtReference ==
    /\ pc = "converted"
    /\ local.longitude = global.REF_LONG
    /\ local.latitude = global.REF_LAT

\* C14: GPStoCoord of the longitude and latitude that were set as the
\* reference of the tangent plane is the local point (0, 0), whatever the
\* reference point and the conversion matrix computed from it.
C14_ReferenceAtOrigin == AtReference => local.coord = <<RInt(0), RInt(0)>>

\* The tangent plane of the reference point in use, computed from the state
\* the process starts in
FromFresh == computeBasis(init(FreshGlobal, global.REF_LONG, global.REF_LAT))

\* C15: the tangent plane keeps nothing from one initialisation to the next:
\* init and computeBasis for a reference point, run after an earlier init and
\* computeBasis in the same process, leave the basis vectors ourX, ourY, ourZ
\* and the conversion matrix that one run from a fresh state leaves.
C15_NoCarriedState ==
    pc = "based" =>
        /\ global.ourX = FromFresh.ourX
        /\ global.ourY = FromFresh.ourY
        /\ global.ourZ = FromFresh.ourZ
        /\ global.convMatrix = FromFresh.convMatrix

\* 1e-6 rad
Tolerance == <<1, 1000000>>

\* |e| <= Tolerance, for a rational e
WithinTolerance(e) == Abs(e[1]) * Tolerance[1] <= e[2] \div Tolerance[2]

\* The sine of the angle between the direction east and the longitude l, times
\* the length of east and divided by the sum of the sizes of its two
\* components: at most the sine in size
Bearing(east, l) ==
    RDiv(RSub(RMul(east[2], l[1]), RMul(east[1], l[2])),
         RAdd(RAbs(east[1]), RAbs(east[2])))

\* The longitude that atan2 makes of east is within Tolerance of l: atan2 of
\* (0, 0) is the angle 0, and an angle within Tolerance has its sine within
\* Tolerance
LongitudeKept(east, l) ==
    IF east = <<RInt(0), RInt(0)>> THEN l = NoTurn
    ELSE WithinTolerance(Bearing(east, l))

\* C18: for a GPS point within 50 km of the reference point,
\* CoordtoGPS(GPStoCoord(lon, lat)) gives a longitude and a latitude within
\* 1e-6 rad of lon and lat. Two angles within 1e-6 rad have their sines
\* within 1e-6, which is what is compared here.
C18_RoundTrip ==
    pc = "returned" =>
        /\ WithinTolerance(RSub(local.gps.sinLat, local.latitude[2]))
        /\ LongitudeKept(local.gps.east, local.longitude)

\* Planning has failed: the assert of decompose has ended the process, or
\* decompose has found no chord to split at
PlanningFailed == pc \in {"abort", "spin", "error"}

\* C16: when planning fails (a search polygon of fewer than 3 points, or a
\* decomposition that finds no valid split), no record has been written to
\* the output stream.
C16_NoPartialOutput == PlanningFailed => outFile = 0

\* C17: clockwise(v) is true exactly when the real sum of
\* (x[i+1] - x[i]) * (y[i+1] + y[i]) is positive, also for fractional
\* coordinates, so that after main's canonicaliser every simple search
\* polygon of non-zero area is in counter-clockwise order (its real sum, which
\* has the sign of the sum over the undivided points, is not positive).
C17_CanonicalCCW ==
    (pc = "canonical" /\ IsSimple(searchArea) /\ Area2(searchArea) # 0)
        => ClockSum(searchArea, 0) < 0

\* A step of mergeSubregions: a pass is counted, or the process has crashed
MergeStep == pc' = "crash" \/ passes' = passes + 1

\* C19: mergeSubregions never compares, advances or dereferences a list
\* iterator after the element it designates has been erased; after a merge
\* has removed a subregion the scan goes on from a position that is still in
\* the list.
C19_NoErasedIterator ==
    [][MergeStep =>
          \A crashOnUse \in BOOLEAN :
              ~mergeSubregions(subregions, crashOnUse).usedErased]_vars

\* C20: no front() or back() is taken of an empty list during planning: the
\* path that searchPath returns is not empty when main reads path.front().
\* For a convex search polygon that path is the list of the sweep segments
\* that traverse returns.
C20_PathNotEmpty == pc = "traversed" => waypoints # << >>

\* The chord from vertex c of p to vertex j leaves c into the interior of the
\* counter-clockwise polygon p: its direction is not in the closed wedge
\* outside p, which runs counter-clockwise from the edge into c, reversed, to
\* the edge out of c
IntoInterior(p, c, j) ==
    ~(/\ Cross(Sub(V(p, c - 1 + Len(p)), V(p, c)), Sub(V(p, j), V(p, c))) >= 0
      /\ Cross(Sub(V(p, j), V(p, c)), Sub(V(p, c + 1), V(p, c))) >= 0)

\* The chord from vertex c to vertex j touches no edge of p other than the
\* four edges that end at c or at j, and passes through no other vertex
CrossesNoEdge(p, c, j) ==
    /\ \A i \in 0..(Len(p) - 1) :
          ({i, (i + 1) % Len(p)} \cap {c, j} = {})
              => ~SegmentsTouch(V(p, c), V(p, j), V(p, i), V(p, i + 1))
    /\ \A i \in 0..(Len(p) - 1) :
          i \notin {c, j} => ~OnSegment(V(p, i), V(p, c), V(p, j))

\* C21: every chord decompose selects for a split, from a concave vertex c to
\* a non-adjacent vertex j of a simple counter-clockwise polygon P, lies
\* inside P: it leaves c into the interior sector of P at c and crosses no
\* edge of P.
C21_ChordInside ==
    (/\ lastSplit # << >>
     /\ IsSimple(lastSplit[1])
     /\ Area2(lastSplit[1]) > 0)
        => /\ IntoInterior(lastSplit[1], lastSplit[2], lastSplit[3])
           /\ CrossesNoEdge(lastSplit[1], lastSplit[2], lastSplit[3])

\* The chords decompose tests at the polygon p: from a concave vertex to a
\* vertex that is neither the vertex itself nor next to it
TestedChords(p) ==
    {ch \in ConcaveVerts(p) \X (0..(Len(p) - 1)) :
        ch[1] # ch[2] /\ ~AdjacentIndex(p, ch[1], ch[2])}

\* The test of the chord from c to j with theta1 = theta(edge c) and
\* theta2 = theta(edge c - 1) + pi
TurnedTest(p, c, j) ==
    AngleTest(Theta(V(p, c), V(p, c + 1)),
              AddPi(Theta(V(p, c - 1 + Len(p)), V(p, c))),
              Theta(V(p, c), V(p, j)))

\* C22: in decompose a chord at the concave vertex c is valid as decided with
\* theta1 = theta(edge c) and theta2 = theta(edge c - 1) + pi: when
\* theta1 > theta2, iff not theta2 < theta_s < theta1; otherwise iff
\* theta1 <= theta_s <= theta2; for every direction of the edge c - 1.
C22_AngleTest ==
    (pc = "decompose" /\ pending # << >>) =>
        \A ch \in TestedChords(Head(pending)) :
            ChordValid(Head(pending), ch[1], ch[2])
                <=> TurnedTest(Head(pending), ch[1], ch[2])

\* The two intersections the next iteration of traverse uses, or << >> when
\* the sweep line meets fewer than two edges
Inters ==
    IF Cardinality(SweepHits(searchArea, sweepLine)) < 2 THEN << >>
    ELSE <<Hit(searchArea, sweepLine, LeastIn(SweepHits(searchArea, sweepLine))),
           Hit(searchArea, sweepLine,
               LeastIn(SweepHits(searchArea, sweepLine)
                         \ {LeastIn(SweepHits(searchArea, sweepLine))}))>>

\* The two intersections after the correction
InsetInters ==
    Corrected(Inters[1], Inters[2], CorrectionX(getWidth(searchArea)[2]),
              CorrectionY(getWidth(searchArea)[2]))

\* The sweep is horizontal and the order on x of the corrected end points is
\* the reverse of the order on x of the intersections
CrossedOnX ==
    /\ pc = "sweep"
    /\ Inters # << >>
    /\ Inters[1][2] = Inters[2][2]
    /\ \/ /\ RLess(Inters[1][1], Inters[2][1])
          /\ RLess(InsetInters[2][1], InsetInters[1][1])
       \/ /\ RLess(Inters[2][1], Inters[1][1])
          /\ RLess(InsetInters[1][1], InsetInters[2][1])

\* C23: traverse discards every sweep whose two end points have crossed after
\* the correction: for a horizontal sweep, when the order on x of the
\* corrected end points is the reverse of that of the intersections, in
\* either original order, no segment is emitted for that sweep line.
C23_CrossedDiscarded == [][CrossedOnX => waypoints' = waypoints]_vars


\* C24: in every iteration of traverse that uses two intersections, inter2
\* is a point distinct from inter1, also when the sweep line passes through
\* a vertex shared by two consecutive edges.
C24_DistinctInters ==
    (pc = "sweep" /\ Inters # << >>) => Inters[1] # Inters[2]


\* The point pt, in metres, is inside or on the boundary of the convex
\* counter-clockwise polygon p: it is left of or on every edge
WithinConvex(p, pt) ==
    \A i \in 0..(Len(p) - 1) :
        RSign(RCross(PSub(MetreEdge(p, i)[2], MetreEdge(p, i)[1]),
                     PSub(pt, MetreEdge(p, i)[1]))) >= 0

\* C25: every end point of every sweep segment traverse returns for a convex
\* counter-clockwise polygon is inside or on the boundary of the polygon.
C25_WaypointsInside ==
    pc = "traversed" =>
        \A k \in 1..Len(waypoints) :
            /\ WithinConvex(searchArea, waypoints[k][1])
            /\ WithinConvex(searchArea, waypoints[k][2])


\* C26: decompose terminates on every simple counter-clockwise polygon of at
\* least 3 vertices: the chord search never repeats without a chord chosen,
\* and every polygon decompose is called on recursively has at least 3
\* vertices and fewer vertices than its parent.
C26_Terminates ==
    (/\ pc \in {"decompose", "spin"}
     /\ Len(searchArea) >= 3 /\ IsSimple(searchArea) /\ Area2(searchArea) > 0)
        => /\ pc # "spin"
           /\ lastSplit # << >> =>
                 /\ Len(lastSplit[4]) >= 3 /\ Len(lastSplit[4]) < Len(lastSplit[1])
                 /\ Len(lastSplit[5]) >= 3 /\ Len(lastSplit[5]) < Len(lastSplit[1])


\* The pairs of distinct indices of p that are not neighbours round p
SplitPairs(p) ==
    {ch \in (0..(Len(p) - 1)) \X (0..(Len(p) - 1)) :
        ch[1] # ch[2] /\ ~AdjacentIndex(p, ch[1], ch[2])}

\* The vertices of p from index a round to index b, both included
Run(p, a, b) ==
    [k \in 1..(((b - a + Len(p)) % Len(p)) + 1) |->
        p[((a + k - 1) % Len(p)) + 1]]

InRange(s) == {s[k] : k \in 1..Len(s)}

\* The two polygons s are the split of p at the indices a < b
SplitsAt(p, a, b, s) ==
    /\ s[1] = Run(p, a, b)
    /\ s[2] = Run(p, b, a)
    /\ {p[a + 1], p[b + 1]} \subseteq InRange(s[1]) \cap InRange(s[2])
    /\ Len(s[1]) >= 3
    /\ Len(s[2]) >= 3
    /\ Len(s[1]) + Len(s[2]) = Len(p) + 2

\* C30: for two distinct indices c and j of p that are not neighbours round
\* p, split gives P1 = the vertices from min(c, j) to max(c, j) and P2 = the
\* vertices from max(c, j) round to min(c, j), end points included: both
\* hold both end points of the chord, each has at least 3 vertices, and
\* |P1| + |P2| = n + 2.  Checked for every such pair of each polygon
\* decompose receives, and for the split decompose made last.
C30_Split ==
    /\ (pc = "decompose" /\ pending # << >>) =>
          \A ch \in SplitPairs(Head(pending)) :
              SplitsAt(Head(pending), Min2(ch[1], ch[2]), Max2(ch[1], ch[2]),
                       split(Head(pending), ch[1], ch[2]))
    /\ lastSplit # << >> =>
          SplitsAt(lastSplit[1], Min2(lastSplit[2], lastSplit[3]),
                   Max2(lastSplit[2], lastSplit[3]),
                   <<lastSplit[4], lastSplit[5]>>)

\* decompose has split a polygon of 5 or more vertices at a chord that does
\* not start at vertex 0, so that P2 runs through the end of the vertex list.
C30_Witness ==
    /\ lastSplit # << >>
    /\ Len(lastSplit[1]) >= 5
    /\ Min2(lastSplit[2], lastSplit[3]) > 0
    /\ Max2(lastSplit[2], lastSplit[3]) < Len(lastSplit[1]) - 1
    /\ lastSplit[2] > lastSplit[3]


\* The tour is computed and the start states are set
StatesSet == pc \in {"write", "routed"}

\* The node at position k of the tour
TourNode(k) == graph.v[travOrder[k] + 1]

\* The four corners of a node with a sweep list: front.v1, front.v2, back.v1
\* and back.v2
Corners(nd) ==
    {nd.path[1][1], nd.path[1][2],
     nd.path[Len(nd.path)][1], nd.path[Len(nd.path)][2]}

\* c is, among the points of S, at the least distance from target
NearestOf(c, S, target) ==
    /\ c \in S
    /\ \A d \in S : ~RLess(Distance2(d, target), Distance2(c, target))

\* The number of waypoints the path holds for the first k nodes of the tour
RECURSIVE WrittenBefore(_)
WrittenBefore(k) ==
    IF k = 0 THEN 0 ELSE WrittenBefore(k - 1) + 2 * Len(TourNode(k).path)

\* C27: in the path searchPath writes, for every two consecutive subregions
\* of the tour with non-empty sweep lists, the first waypoint written for
\* the later one is the one of its four corners nearest to the last
\* waypoint written for the earlier one, which is the joint computeStates
\* used for the earlier one.
C27_Linked ==
    pc = "routed" =>
        \A k \in 1..(Len(travOrder) - 1) :
            (TourNode(k).path # << >> /\ TourNode(k + 1).path # << >>) =>
                /\ NearestOf(path[WrittenBefore(k) + 1],
                             Corners(TourNode(k + 1)),
                             path[WrittenBefore(k)])
                /\ \A junk \in JunkEdges :
                      Joint(TourNode(k), junk, TourNode(k).startState)
                          = path[WrittenBefore(k)]

\* The path is written for a tour of three subregions with sweep lists, one
\* of two or more sweeps entered at another corner than front.v1.
C27_Witness ==
    /\ pc = "routed"
    /\ Len(travOrder) >= 3
    /\ \A k \in 1..Len(travOrder) : TourNode(k).path # << >>
    /\ \E k \in 2..Len(travOrder) :
          /\ Len(TourNode(k).path) >= 2
          /\ TourNode(k).startState # "START_V1"

\* C28: computeStates gives the first node of the tour the start state
\* whose exit corner, the waypoint written last for the node, is the one of
\* the node's four corners at the least distance from the centre of the
\* second node's polygon.
C28_FirstState ==
    (StatesSet /\ TourNode(1).path # << >>) =>
        NearestOf(Written(TourNode(1))[2 * Len(TourNode(1).path)],
                  Corners(TourNode(1)), center(TourNode(2).p))

\* The states are set for a tour whose first node has two or more sweeps
\* and does not keep the state it is given first.
C28_Witness ==
    /\ StatesSet
    /\ Len(TourNode(1).path) >= 2
    /\ TourNode(1).startState # "START_V1"

\* The lists of n node indices that hold each of 0..n-1 once
Orders(n) ==
    {s \in [1..n -> 0..(n - 1)] : \A i, j \in 1..n : i # j => s[i] # s[j]}

\* minTraversal has returned
TourChosen == pc \in {"computeStates", "write", "routed"}

\* C29: minTraversal returns a permutation of the node indices 0..n-1, each
\* once, whose total weight over consecutive pairs is at most that of every
\* other permutation.
C29_MinTour ==
    TourChosen =>
        /\ travOrder \in Orders(Len(graph.v))
        /\ \A s \in Orders(Len(graph.v)) :
              traversalLength(graph, travOrder) <= traversalLength(graph, s)

\* minTraversal has returned, for three nodes, another tour than the first
\* it measured.
C29_Witness ==
    /\ TourChosen
    /\ Len(graph.v) >= 3
    /\ travOrder # [k \in 1..Len(graph.v) |-> k - 1]

============================================================================
